---- MODULE Spec2Model ----
(***************************************************************************)
(* Exact and approximate solvers for 3-SAT, vertex cover, clique, graph    *)
(* coloring and set cover (src/benchmarking/src), as state machines.       *)
(*                                                                         *)
(* One solver call is one behaviour: Init fixes the solver (algo) and its  *)
(* arguments (inst); every action is one step of the solver's code (a loop *)
(* header with its timeout check, one loop iteration, one recursive call   *)
(* or return); pc = "done" once the call has returned, with the returned   *)
(* tuple in result.  The wall clock is the variable expired: it says       *)
(* whether time.time() - start_time > timeout holds now, and it can become *)
(* true between any two steps.                                             *)
(***************************************************************************)
EXTENDS Integers, Sequences, FiniteSets, TLC

VARIABLES algo, inst, pc, loc, expired, result

vars == <<algo, inst, pc, loc, expired, result>>

(***************************************************************************)
(* Bounds of the model.                                                    *)
(***************************************************************************)
MaxVars == 2

MaxLits == 4

MaxV == 4

MaxU == 3

MaxSets == 3

\* MAX-3SAT inputs: literals in a formula of the local search, trial budget,
\* step budget
MaxSatLits == 3

MaxTries == 2

MaxSteps == 2

\* literals in a formula given to the random trials: randomization_maxsat,
\* and the benchmark harness, which calls it
MaxTrialLits == 2

\* largest number of vertices of the adjacency dicts that need not be
\* symmetric
MaxDirectedV == 3

\* the values of the LP relaxation are the multiples of 1 / LPDenominator
LPDenominator == 2

\* largest number of vertices of the graphs given to the LP solver
MaxLPV == 3

(***************************************************************************)
(* Python values.                                                          *)
(***************************************************************************)
None == [some |-> FALSE]

Some(x) == [some |-> TRUE, val |-> x]

Range(s) == {s[i] : i \in 1..Len(s)}

Max2(a, b) == IF a >= b THEN a ELSE b

\* the ascending list of a set of integers: sorted(S), list(range(n))
RECURSIVE sorted(_)
sorted(S) ==
    IF S = {} THEN <<>>
    ELSE LET m == CHOOSE x \in S : \A y \in S : x <= y
         IN <<m>> \o sorted(S \ {m})

\* itertools.combinations(pool, k): the k-subsequences of pool, in
\* lexicographic order of their positions
RECURSIVE combinations(_, _)
combinations(pool, k) ==
    IF k = 0 THEN << <<>> >>
    ELSE IF Len(pool) < k THEN <<>>
    ELSE LET withHead == combinations(Tail(pool), k - 1)
             without  == combinations(Tail(pool), k)
         IN [i \in 1..Len(withHead) |-> <<Head(pool)>> \o withHead[i]] \o without

(***************************************************************************)
(* Graphs: {vertex: set of neighbors}, keys 0..n-1 in insertion order,     *)
(* every edge entered in both directions.                                  *)
(***************************************************************************)
VertexPairs(n) == {p \in (0..(n - 1)) \X (0..(n - 1)) : p[1] < p[2]}

generate_graph(n, E) ==
    [i \in 0..(n - 1) |-> {j \in 0..(n - 1) : <<i, j>> \in E \/ <<j, i>> \in E}]

Graphs(max_vertices) ==
    UNION {{generate_graph(n, E) : E \in SUBSET VertexPairs(n)} : n \in 0..max_vertices}

\* six vertices of degree 2, two colors suffice, and coloring them greedily
\* in key order takes three
CrownGraph ==
    generate_graph(6, {<<0, 3>>, <<0, 5>>, <<1, 2>>, <<2, 5>>, <<1, 4>>, <<3, 4>>})

\* the path 1 - 0 - 2 - 3 - 4: after an end of the middle edges is colored,
\* a vertex of degree 1 has a colored neighbor and a vertex of degree 2
\* has none
PathGraph ==
    generate_graph(5, {<<0, 1>>, <<0, 2>>, <<2, 3>>, <<3, 4>>})

\* a slip: the vertices read off the edges, which misses the isolated ones
keys_with_edges(graph) == sorted({v \in DOMAIN graph : graph[v] # {}})

\* list(graph.keys())
keys(graph) == sorted(DOMAIN graph)

\* the pairs (u, v) with v in graph[u] and u < v
edges_of(graph) ==
    {p \in (DOMAIN graph) \X (DOMAIN graph) : p[2] \in graph[p[1]] /\ p[1] < p[2]}

\* the clock: the timeout may elapse between any two steps of a timed solver
TimedSolvers ==
    {"bruteforce_sat", "bruteforce_vertex_cover", "bruteforce_clique",
     "backtrack_coloring_optimized", "bruteforce_set_cover", "greedy_set_cover"}

Elapse ==
    /\ algo \in TimedSolvers
    /\ pc # "done"
    /\ ~expired
    /\ expired' = TRUE
    /\ UNCHANGED <<algo, inst, pc, loc, result>>

(***************************************************************************)
(* 3-SAT.  A formula is a list of clauses, a clause a list of literals: a  *)
(* literal is a variable 1..n_vars, or its negative for the negation.      *)
(***************************************************************************)
Literals(n) == {lit \in (-n)..n : lit # 0}

\* the list lits cut into clauses after the positions in cuts
clauses_of(lits, cuts) ==
    LET ends == sorted(cuts \cup (IF Len(lits) = 0 THEN {} ELSE {Len(lits)}))
    IN [c \in 1..Len(ends) |->
           SubSeq(lits, IF c = 1 THEN 1 ELSE ends[c - 1] + 1, ends[c])]

\* the formulas over n variables with s literals in all, in clauses of one
\* literal or more
FormulasOfSize(n, s) ==
    {[clauses |-> clauses_of(lits, cuts), n_vars |-> n] :
        lits \in [1..s -> Literals(n)], cuts \in SUBSET (1..(s - 1))}

\* the 4-variable scenario: every clause can be satisfied
ScenarioFormula ==
    [clauses |-> <<<<1, 2, -3>>, <<-1, 2, 3>>, <<1, -2, -3>>, <<-1, -2, 3>>>>,
     n_vars |-> 4]

abs(x) == IF x < 0 THEN -x ELSE x

\* a slip in line 34: (i >> var) for (i >> (var - 1))
assignment_of_shifted(i, n_vars) ==
    [var \in 1..n_vars |-> (i \div (2 ^ var)) % 2 = 1]

\* lines 32-34: assignment[var] = bool((i >> (var - 1)) & 1)
assignment_of(i, n_vars) ==
    [var \in 1..n_vars |-> (i \div (2 ^ (var - 1))) % 2 = 1]

\* line 37: (lit > 0 and assignment[abs(lit)]) or (lit < 0 and not assignment[abs(lit)])
literal_true(lit, assignment) ==
    \/ lit > 0 /\ assignment[abs(lit)]
    \/ lit < 0 /\ ~assignment[abs(lit)]

\* any(... for lit in clause)
clause_satisfied(clause, assignment) ==
    \E p \in 1..Len(clause) : literal_true(clause[p], assignment)

\* lines 37-38: all(any(...) for clause in clauses)
satisfies_all(clauses, assignment) ==
    \A c \in 1..Len(clauses) : clause_satisfied(clauses[c], assignment)

\* one pass of "for i in range(2 ** n_vars)", lines 27-39, or its exit
bruteforce_sat_for_i ==
    /\ algo = "bruteforce_sat"
    /\ pc = "for_i"
    /\ IF loc.i >= 2 ^ inst.n_vars
       THEN /\ result' = <<None, "UNSAT">>
            /\ pc' = "done"
            /\ loc' = loc
       ELSE IF expired
       THEN /\ result' = <<None, "TIMEOUT">>
            /\ pc' = "done"
            /\ loc' = loc
       ELSE LET assignment == assignment_of(loc.i, inst.n_vars)
            IN IF satisfies_all(inst.clauses, assignment)
               THEN /\ result' = <<assignment, "SAT">>
                    /\ pc' = "done"
                    /\ loc' = loc
               ELSE /\ loc' = [loc EXCEPT !.i = loc.i + 1]
                    /\ pc' = pc
                    /\ result' = result
    /\ UNCHANGED <<algo, inst, expired>>

InitSat ==
    /\ algo = "bruteforce_sat"
    /\ \/ \E n \in 0..MaxVars : \E s \in 0..MaxLits : inst \in FormulasOfSize(n, s)
       \/ inst = ScenarioFormula
    /\ loc = [i |-> 0]
    /\ pc = "for_i"
    /\ expired = FALSE
    /\ result = <<>>

NextSat ==
    \/ Elapse
    \/ bruteforce_sat_for_i

SpecSat == InitSat /\ [][NextSat]_vars

(***************************************************************************)
(* MAX-3SAT heuristics.  random.choice([True, False]) draws any of the two *)
(* values: a drawn assignment is any total assignment of variables         *)
(* 1..n_vars.                                                              *)
(***************************************************************************)
Assignments(n_vars) == [1..n_vars -> BOOLEAN]

\* lines 70-72 and 102-105: sum(1 for clause in clauses if any(...))
count_satisfied(clauses, assignment) ==
    Cardinality({c \in 1..Len(clauses) : clause_satisfied(clauses[c], assignment)})

\* one pass of "for _ in range(max_tries)", lines 65-76, or its exit, line 78;
\* loc.drawn lists the assignments drawn so far
randomization_maxsat_for_try ==
    /\ algo = "randomization_maxsat"
    /\ pc = "for_try"
    /\ IF Len(loc.drawn) >= inst.max_tries
       THEN /\ result' = <<loc.best_assignment, loc.best_count>>
            /\ pc' = "done"
            /\ loc' = loc
       ELSE \E assignment \in Assignments(inst.n_vars) :
               LET count == count_satisfied(inst.clauses, assignment)
               IN /\ loc' = IF count > loc.best_count
                            THEN [drawn |-> Append(loc.drawn, assignment),
                                  best_assignment |-> Some(assignment),
                                  best_count |-> count]
                            ELSE [loc EXCEPT !.drawn = Append(loc.drawn, assignment)]
                  /\ pc' = pc
                  /\ result' = result
    /\ UNCHANGED <<algo, inst, expired>>

\* a slip in lines 131, 136, 144: assignment[var] = True for a negation
flip_set_true(assignment, var) ==
    [assignment EXCEPT ![var] = TRUE]

\* lines 131, 136, 144: assignment[var] = not assignment[var]
flip(assignment, var) ==
    [assignment EXCEPT ![var] = ~assignment[var]]

\* lines 111-113: the positions of the clauses no literal of which is true
unsatisfied(clauses, assignment) ==
    {c \in 1..Len(clauses) : ~clause_satisfied(clauses[c], assignment)}

\* a slip in lines 121-123: the inner loop left out, so that only the
\* first literal of each unsatisfied clause gives a candidate
flip_candidates_first_literal(clauses, assignment) ==
    UNION {{abs(clauses[c][p]) : p \in 1..Len(clauses[c]) \cap {1}} :
              c \in unsatisfied(clauses, assignment)}

\* lines 120-123: the variables of the unsatisfied clauses
flip_candidates(clauses, assignment) ==
    UNION {{abs(clauses[c][p]) : p \in 1..Len(clauses[c])} :
              c \in unsatisfied(clauses, assignment)}

\* a slip in line 133: current_count - new_count
improvement_swapped(new_count, current_count) ==
    current_count - new_count

\* line 133: improvement = new_count - current_count
improvement(new_count, current_count) ==
    new_count - current_count

\* line 100: the random start assignment
flipping_literals_maxsat_start ==
    /\ algo = "flipping_literals_maxsat"
    /\ pc = "start"
    /\ \E assignment \in Assignments(inst.n_vars) :
           loc' = [assignment |-> assignment, step |-> 0, current_count |-> 0,
                   todo |-> {}, best_var |-> None, best_improvement |-> 0]
    /\ pc' = "for_step"
    /\ UNCHANGED <<algo, inst, expired, result>>

\* the head of one pass of "for _ in range(max_steps)", lines 107-127, or
\* the exit of the loop, lines 149-150
flipping_literals_maxsat_for_step ==
    /\ algo = "flipping_literals_maxsat"
    /\ pc = "for_step"
    /\ IF loc.step >= inst.max_steps
       THEN /\ result' = <<loc.assignment,
                           count_satisfied(inst.clauses, loc.assignment)>>
            /\ pc' = "done"
            /\ loc' = loc
       ELSE IF unsatisfied(inst.clauses, loc.assignment) = {}
       THEN /\ result' = <<loc.assignment, Len(inst.clauses)>>
            /\ pc' = "done"
            /\ loc' = loc
       ELSE /\ loc' = [loc EXCEPT
                          !.current_count =
                              count_satisfied(inst.clauses, loc.assignment),
                          !.todo = flip_candidates(inst.clauses, loc.assignment),
                          !.best_var = None,
                          !.best_improvement = 0]
            /\ pc' = "for_var"
            /\ result' = result
    /\ UNCHANGED <<algo, inst, expired>>

\* one pass of "for var in candidates", lines 129-140 (candidates is a set:
\* any order), or its exit with the commit or the break, lines 143-150
flipping_literals_maxsat_for_var ==
    /\ algo = "flipping_literals_maxsat"
    /\ pc = "for_var"
    /\ IF loc.todo = {}
       THEN IF loc.best_improvement > 0 /\ loc.best_var.some
            THEN /\ loc' = [loc EXCEPT
                               !.assignment = flip(loc.assignment, loc.best_var.val),
                               !.step = loc.step + 1]
                 /\ pc' = "for_step"
                 /\ result' = result
            ELSE /\ result' = <<loc.assignment,
                                count_satisfied(inst.clauses, loc.assignment)>>
                 /\ pc' = "done"
                 /\ loc' = loc
       ELSE \E var \in loc.todo :
               LET flipped == flip(loc.assignment, var)
                   new_count == count_satisfied(inst.clauses, flipped)
                   gain == improvement(new_count, loc.current_count)
                   better == gain > loc.best_improvement
               IN /\ loc' = [loc EXCEPT
                                !.assignment = flip(flipped, var),
                                !.todo = loc.todo \ {var},
                                !.best_var = IF better THEN Some(var) ELSE loc.best_var,
                                !.best_improvement =
                                    IF better THEN gain ELSE loc.best_improvement]
                  /\ pc' = pc
                  /\ result' = result
    /\ UNCHANGED <<algo, inst, expired>>

InitMaxSat ==
    /\ \/ /\ algo = "randomization_maxsat"
          /\ \E n \in 0..MaxVars : \E s \in 0..MaxTrialLits :
                \E f \in FormulasOfSize(n, s) : \E t \in 0..MaxTries :
                   inst = [clauses |-> f.clauses, n_vars |-> n, max_tries |-> t]
       \/ /\ algo = "flipping_literals_maxsat"
          /\ \E n \in 0..MaxVars : \E s \in 0..MaxSatLits :
                \E f \in FormulasOfSize(n, s) : \E t \in 0..MaxSteps :
                   inst = [clauses |-> f.clauses, n_vars |-> n, max_steps |-> t]
       \/ /\ algo = "flipping_literals_maxsat"
          /\ \E t \in 0..MaxSteps :
                inst = [clauses |-> ScenarioFormula.clauses,
                        n_vars |-> ScenarioFormula.n_vars, max_steps |-> t]
    /\ IF algo = "randomization_maxsat"
       THEN /\ loc = [drawn |-> <<>>, best_assignment |-> None, best_count |-> 0]
            /\ pc = "for_try"
       ELSE /\ loc = <<>>
            /\ pc = "start"
    /\ expired = FALSE
    /\ result = <<>>

NextMaxSat ==
    \/ randomization_maxsat_for_try
    \/ flipping_literals_maxsat_start
    \/ flipping_literals_maxsat_for_step
    \/ flipping_literals_maxsat_for_var

SpecMaxSat == InitMaxSat /\ [][NextMaxSat]_vars

(***************************************************************************)
(* Vertex cover.                                                           *)
(***************************************************************************)
\* a slip in line 47: "or" for "and", so that an edge counts as covered only
\* when both of its endpoints are in cover_set
is_valid_both_endpoints(graph, cover_set) ==
    \A e \in edges_of(graph) : e[1] \in cover_set /\ e[2] \in cover_set

\* lines 46-49: every edge has an endpoint in cover_set
is_valid(graph, cover_set) ==
    \A e \in edges_of(graph) : e[1] \in cover_set \/ e[2] \in cover_set

\* the for-k header: loop exit, the timeout check, or entry to the subsets
bruteforce_vertex_cover_for_k ==
    /\ algo = "bruteforce_vertex_cover"
    /\ pc = "for_k"
    /\ LET vertices == keys(inst.graph)
           n == Len(vertices)
       IN IF loc.k > n
          THEN /\ result' = <<Range(vertices)>>
               /\ pc' = "done"
               /\ loc' = loc
          ELSE IF expired
          THEN /\ result' = <<Range(vertices)>>
               /\ pc' = "done"
               /\ loc' = loc
          ELSE /\ pc' = "for_subset"
               /\ loc' = [loc EXCEPT !.j = 1]
               /\ result' = result
    /\ UNCHANGED <<algo, inst, expired>>

\* one subset of size k: return it when it covers every edge
bruteforce_vertex_cover_for_subset ==
    /\ algo = "bruteforce_vertex_cover"
    /\ pc = "for_subset"
    /\ LET subsets == combinations(keys(inst.graph), loc.k)
       IN IF loc.j > Len(subsets)
          THEN /\ pc' = "for_k"
               /\ loc' = [loc EXCEPT !.k = loc.k + 1]
               /\ result' = result
          ELSE LET cover_set == Range(subsets[loc.j])
               IN IF is_valid(inst.graph, cover_set)
                  THEN /\ result' = <<cover_set>>
                       /\ pc' = "done"
                       /\ loc' = loc
                  ELSE /\ loc' = [loc EXCEPT !.j = loc.j + 1]
                       /\ pc' = pc
                       /\ result' = result
    /\ UNCHANGED <<algo, inst, expired>>

\* the next edge of remaining_edges: u in key order, v in the iteration
\* order of the set graph[u], which the language leaves open
next_edges(remaining) ==
    {e \in remaining : \A f \in remaining : e[1] <= f[1]}

\* a slip in line 82: "or" for "and", so that an edge with one matched
\* endpoint is taken into the matching too
matching_step_either_free(l, e) ==
    IF e[1] \notin l.covered_vertices \/ e[2] \notin l.covered_vertices
    THEN [l EXCEPT !.cover = l.cover \cup {e[1], e[2]},
                   !.covered_vertices = l.covered_vertices \cup {e[1], e[2]},
                   !.remaining = l.remaining \ {e}]
    ELSE [l EXCEPT !.remaining = l.remaining \ {e}]

\* lines 81-87 for one edge
matching_step(l, e) ==
    IF e[1] \notin l.covered_vertices /\ e[2] \notin l.covered_vertices
    THEN [l EXCEPT !.cover = l.cover \cup {e[1], e[2]},
                   !.covered_vertices = l.covered_vertices \cup {e[1], e[2]},
                   !.remaining = l.remaining \ {e}]
    ELSE [l EXCEPT !.remaining = l.remaining \ {e}]

vertex_cover_maximal_matching_edge ==
    /\ algo = "vertex_cover_maximal_matching"
    /\ pc = "for_edge"
    /\ loc.remaining # {}
    /\ \E e \in next_edges(loc.remaining) : loc' = matching_step(loc, e)
    /\ UNCHANGED <<algo, inst, pc, expired, result>>

vertex_cover_maximal_matching_return ==
    /\ algo = "vertex_cover_maximal_matching"
    /\ pc = "for_edge"
    /\ loc.remaining = {}
    /\ result' = <<loc.cover>>
    /\ pc' = "done"
    /\ UNCHANGED <<algo, inst, loc, expired>>

\* a value of the relaxation is a multiple of 1 / LPDenominator in [0, 1],
\* held as its numerator; result.x lists the values in the order of vertices
LPValues == 0..LPDenominator

\* lines 124-139: 0 <= x_v <= 1 for every vertex, x_u + x_v >= 1 for every edge
lp_feasible(graph, vertices, x) ==
    \A e \in edges_of(graph) :
        \E i, j \in 1..Len(vertices) :
            /\ vertices[i] = e[1]
            /\ vertices[j] = e[2]
            /\ x[i] + x[j] >= LPDenominator

\* a slip in line 150: val > 0.5
rounds_up_strict(val) == 2 * val > LPDenominator

\* line 150: val >= 0.5
rounds_up(val) == 2 * val >= LPDenominator

\* lines 104-147: the early returns, the call of linprog, and the fallback
\* when it reports failure; linprog is outside the program: it may fail, and
\* a success carries any feasible x
vertex_cover_lp_rounding_solve ==
    /\ algo = "vertex_cover_lp_rounding"
    /\ pc = "solve"
    /\ LET vertices == keys(inst.graph)
           n == Len(vertices)
       IN IF n = 0 \/ edges_of(inst.graph) = {}
          THEN /\ result' = <<{}>>
               /\ pc' = "done"
               /\ loc' = loc
          ELSE \/ /\ loc' = [success |-> Some(FALSE), x |-> None]
                  /\ result' = <<Range(vertices)>>
                  /\ pc' = "done"
               \/ \E x \in [1..n -> LPValues] :
                     /\ lp_feasible(inst.graph, vertices, x)
                     /\ loc' = [success |-> Some(TRUE), x |-> Some(x)]
                     /\ pc' = "round"
                     /\ result' = result
    /\ UNCHANGED <<algo, inst, expired>>

\* lines 149-153: the vertices whose value is 0.5 or more
vertex_cover_lp_rounding_round ==
    /\ algo = "vertex_cover_lp_rounding"
    /\ pc = "round"
    /\ LET vertices == keys(inst.graph)
       IN result' = <<{vertices[i] : i \in {j \in 1..Len(vertices) :
                                               rounds_up(loc.x.val[j])}}>>
    /\ pc' = "done"
    /\ UNCHANGED <<algo, inst, loc, expired>>

InitVC ==
    /\ algo \in {"bruteforce_vertex_cover", "vertex_cover_maximal_matching",
                 "vertex_cover_lp_rounding"}
    /\ inst \in {[graph |-> g] :
                    g \in Graphs(IF algo = "vertex_cover_lp_rounding" THEN MaxLPV
                                 ELSE MaxV)}
    /\ loc = CASE algo = "bruteforce_vertex_cover" -> [k |-> 0, j |-> 1]
               [] algo = "vertex_cover_maximal_matching" ->
                      [cover |-> {}, covered_vertices |-> {},
                       remaining |-> edges_of(inst.graph)]
               [] OTHER -> [success |-> None, x |-> None]
    /\ pc = CASE algo = "bruteforce_vertex_cover" -> "for_k"
              [] algo = "vertex_cover_maximal_matching" -> "for_edge"
              [] OTHER -> "solve"
    /\ expired = FALSE
    /\ result = <<>>

NextVC ==
    \/ Elapse
    \/ bruteforce_vertex_cover_for_k
    \/ bruteforce_vertex_cover_for_subset
    \/ vertex_cover_maximal_matching_edge
    \/ vertex_cover_maximal_matching_return
    \/ vertex_cover_lp_rounding_solve
    \/ vertex_cover_lp_rounding_round

SpecVC == InitVC /\ [][NextVC]_vars

(***************************************************************************)
(* Maximum clique.                                                         *)
(***************************************************************************)
\* a slip in line 37: range(i + 1, ...) cut to the next member only, so that
\* only consecutive members are compared
is_clique_consecutive(graph, subset) ==
    \A i \in 1..(Len(subset) - 1) : subset[i + 1] \in graph[subset[i]]

\* lines 35-43: every later member of subset is in the set of every earlier
is_clique(graph, subset) ==
    \A i \in 1..Len(subset) : \A j \in (i + 1)..Len(subset) :
        subset[j] \in graph[subset[i]]

\* the for-k header (k = n, n-1, ..., 1): loop exit, the timeout check, or
\* entry to the subsets of size k
bruteforce_clique_for_k ==
    /\ algo = "bruteforce_clique"
    /\ pc = "for_k"
    /\ IF loc.k < 1
       THEN /\ result' = <<{}>>
            /\ pc' = "done"
            /\ loc' = loc
       ELSE IF expired
       THEN /\ result' = <<{}>>
            /\ pc' = "done"
            /\ loc' = loc
       ELSE /\ pc' = "for_subset"
            /\ loc' = [loc EXCEPT !.j = 1]
            /\ result' = result
    /\ UNCHANGED <<algo, inst, expired>>

\* one subset of size k: return it when it is a clique
bruteforce_clique_for_subset ==
    /\ algo = "bruteforce_clique"
    /\ pc = "for_subset"
    /\ LET subsets == combinations(keys(inst.graph), loc.k)
       IN IF loc.j > Len(subsets)
          THEN /\ pc' = "for_k"
               /\ loc' = [loc EXCEPT !.k = loc.k - 1]
               /\ result' = result
          ELSE IF is_clique(inst.graph, subsets[loc.j])
          THEN /\ result' = <<Range(subsets[loc.j])>>
               /\ pc' = "done"
               /\ loc' = loc
          ELSE /\ loc' = [loc EXCEPT !.j = loc.j + 1]
               /\ pc' = pc
               /\ result' = result
    /\ UNCHANGED <<algo, inst, expired>>

\* sorted(graph.keys(), key=lambda v: len(graph[v]), reverse=True): the
\* sort is stable, so vertices of equal degree keep their key order
RECURSIVE sorted_by_degree(_, _)
sorted_by_degree(graph, S) ==
    IF S = {} THEN <<>>
    ELSE LET m == CHOOSE x \in S : \A y \in S :
                      \/ Cardinality(graph[x]) > Cardinality(graph[y])
                      \/ Cardinality(graph[x]) = Cardinality(graph[y]) /\ x <= y
         IN <<m>> \o sorted_by_degree(graph, S \ {m})

\* a slip in lines 73 and 84: any(...) for all(...)
connected_to_any(graph, w, clique) ==
    \E u \in clique : u \in graph[w]

\* line 73 and line 84: w is connected to all vertices of the clique
connected_to_all(graph, w, clique) ==
    \A u \in clique : u \in graph[w]

\* line 81: max(candidates, key=...) is a candidate of largest degree inside
\* the pool; among equals, the one the set's iteration meets first
best_candidates(graph, candidates) ==
    {x \in candidates : \A y \in candidates :
        Cardinality(graph[x] \cap candidates) >= Cardinality(graph[y] \cap candidates)}

\* a slip in line 89: candidates.remove(best) left out
extend_clique_keep_best(graph, l, best) ==
    IF connected_to_all(graph, best, l.current_clique)
    THEN [l EXCEPT !.current_clique = l.current_clique \cup {best},
                   !.candidates = l.candidates \cap graph[best]]
    ELSE l

\* lines 84-89 for the chosen candidate
extend_clique(graph, l, best) ==
    IF connected_to_all(graph, best, l.current_clique)
    THEN [l EXCEPT !.current_clique = l.current_clique \cup {best},
                   !.candidates = l.candidates \cap graph[best]]
    ELSE [l EXCEPT !.candidates = l.candidates \ {best}]

\* the for-v header and lines 73-77
greedy_clique_for_v ==
    /\ algo = "greedy_clique"
    /\ pc = "for_v"
    /\ LET vertices == sorted_by_degree(inst.graph, DOMAIN inst.graph)
       IN IF loc.i > Len(vertices)
          THEN /\ result' = <<loc.current_clique>>
               /\ pc' = "done"
               /\ loc' = loc
          ELSE LET v == vertices[loc.i]
               IN IF connected_to_all(inst.graph, v, loc.current_clique)
                  THEN /\ loc' = [loc EXCEPT
                                    !.current_clique = loc.current_clique \cup {v},
                                    !.candidates =
                                        inst.graph[v] \ (loc.current_clique \cup {v})]
                       /\ pc' = "while_candidates"
                       /\ result' = result
                  ELSE /\ loc' = [loc EXCEPT !.i = loc.i + 1]
                       /\ pc' = pc
                       /\ result' = result
    /\ UNCHANGED <<algo, inst, expired>>

\* one iteration of "while candidates", or its exit to the next v
greedy_clique_while_candidates ==
    /\ algo = "greedy_clique"
    /\ pc = "while_candidates"
    /\ IF loc.candidates = {}
       THEN /\ loc' = [loc EXCEPT !.i = loc.i + 1]
            /\ pc' = "for_v"
       ELSE /\ \E best \in best_candidates(inst.graph, loc.candidates) :
                   loc' = extend_clique(inst.graph, loc, best)
            /\ pc' = pc
    /\ UNCHANGED <<algo, inst, expired, result>>

InitClique ==
    /\ inst \in {[graph |-> g] : g \in Graphs(MaxV)}
    /\ algo \in {"bruteforce_clique", "greedy_clique"}
    /\ loc = IF algo = "bruteforce_clique"
             THEN [k |-> Cardinality(DOMAIN inst.graph), j |-> 1]
             ELSE [i |-> 1, current_clique |-> {}, candidates |-> {}]
    /\ pc = IF algo = "bruteforce_clique" THEN "for_k" ELSE "for_v"
    /\ expired = FALSE
    /\ result = <<>>

NextClique ==
    \/ Elapse
    \/ bruteforce_clique_for_k
    \/ bruteforce_clique_for_subset
    \/ greedy_clique_for_v
    \/ greedy_clique_while_candidates

SpecClique == InitClique /\ [][NextClique]_vars

(***************************************************************************)
(* Graph coloring.  A coloring is a dict {vertex: color}: a function whose *)
(* domain is the set of colored vertices.                                  *)
(***************************************************************************)
\* coloring[v] = color
set_color(coloring, v, color) ==
    [u \in (DOMAIN coloring) \cup {v} |-> IF u = v THEN color ELSE coloring[u]]

\* a slip in line 57: the color of v left in place
del_color_kept(coloring, v) ==
    coloring

\* del coloring[v]
del_color(coloring, v) ==
    [u \in (DOMAIN coloring) \ {v} |-> coloring[u]]

\* {coloring[u] for u in graph[v] if u in coloring}
neighbor_colors(graph, coloring, v) ==
    {coloring[u] : u \in graph[v] \cap DOMAIN coloring}

\* a slip in "while color in neighbor_colors": an "if", which steps over one
\* used color only
smallest_free_color_one_step(used) ==
    IF 0 \in used THEN 1 ELSE 0

\* color = 0; while color in neighbor_colors: color += 1
smallest_free_color(used) ==
    CHOOSE c \in 0..Cardinality(used) :
        c \notin used /\ \A d \in 0..(c - 1) : d \in used

\* a slip in line 49: range(max_color_used + 1), which never opens a color
candidate_colors_no_new(max_color_used) == 0..max_color_used

\* line 49: range(max_color_used + 2)
candidate_colors(max_color_used) == 0..(max_color_used + 1)

\* greedy_coloring, lines 144-150, from the i-th vertex of the order on
RECURSIVE greedy_coloring_from(_, _, _, _)
greedy_coloring_from(graph, vertices, i, coloring) ==
    IF i > Len(vertices) THEN coloring
    ELSE greedy_coloring_from(graph, vertices, i + 1,
             set_color(coloring, vertices[i],
                 smallest_free_color(neighbor_colors(graph, coloring, vertices[i]))))

\* a slip in lines 139-142: the degree order whatever the strategy
greedy_order_by_degree(graph, strategy) ==
    sorted_by_degree(graph, DOMAIN graph)

\* lines 139-142: the order in which greedy_coloring visits the vertices
greedy_order(graph, strategy) ==
    IF strategy = "degree" THEN sorted_by_degree(graph, DOMAIN graph)
    ELSE sorted(DOMAIN graph)

\* the value of greedy_coloring(graph, strategy)
greedy_coloring(graph, strategy) ==
    greedy_coloring_from(graph, greedy_order(graph, strategy), 1, <<>>)

\* entry to backtrack(idx, max_color_used), lines 34-46
backtrack_call ==
    /\ algo = "backtrack_coloring_optimized"
    /\ pc = "call"
    /\ LET vertices == sorted_by_degree(inst.graph, DOMAIN inst.graph)
           n == Len(vertices)
           idx == loc.arg.idx
           max_color_used == loc.arg.max_color_used
       IN IF expired
          THEN /\ pc' = "return"
               /\ loc' = loc
          ELSE IF idx = n
          THEN /\ pc' = "return"
               /\ loc' = IF max_color_used + 1 < loc.best_num_colors
                         THEN [loc EXCEPT !.best_num_colors = max_color_used + 1,
                                          !.best_coloring = Some(loc.coloring)]
                         ELSE loc
          ELSE /\ pc' = "for_color"
               /\ loc' = [loc EXCEPT !.stack = Append(loc.stack,
                            [idx |-> idx,
                             max_color_used |-> max_color_used,
                             v |-> vertices[idx + 1],
                             neighbor_colors |->
                                 neighbor_colors(inst.graph, loc.coloring, vertices[idx + 1]),
                             color |-> 0])]
    /\ UNCHANGED <<algo, inst, expired, result>>

\* the for-color header of the innermost call, lines 49-56
backtrack_for_color ==
    /\ algo = "backtrack_coloring_optimized"
    /\ pc = "for_color"
    /\ LET d == Len(loc.stack)
           f == loc.stack[d]
       IN IF f.color \notin candidate_colors(f.max_color_used)
             \/ f.color >= loc.best_num_colors
          THEN \* the loop ends, or is cut by the bound: the call returns
               /\ pc' = "return"
               /\ loc' = [loc EXCEPT !.stack = SubSeq(loc.stack, 1, d - 1)]
          ELSE IF f.color \notin f.neighbor_colors
          THEN /\ pc' = "call"
               /\ loc' = [loc EXCEPT
                            !.coloring = set_color(loc.coloring, f.v, f.color),
                            !.arg = [idx |-> f.idx + 1,
                                     max_color_used |-> Max2(f.max_color_used, f.color)]]
          ELSE /\ pc' = pc
               /\ loc' = [loc EXCEPT !.stack[d].color = f.color + 1]
    /\ UNCHANGED <<algo, inst, expired, result>>

\* a call has returned: line 57 in the caller, or lines 61-65 at the top
backtrack_return ==
    /\ algo = "backtrack_coloring_optimized"
    /\ pc = "return"
    /\ LET d == Len(loc.stack)
       IN IF d = 0
          THEN /\ pc' = "done"
               /\ loc' = loc
               /\ result' = IF ~loc.best_coloring.some
                            THEN <<greedy_coloring(inst.graph, "natural")>>
                            ELSE <<loc.best_coloring.val>>
          ELSE /\ pc' = "for_color"
               /\ loc' = [loc EXCEPT
                            !.coloring = del_color(loc.coloring, loc.stack[d].v),
                            !.stack[d].color = loc.stack[d].color + 1]
               /\ result' = result
    /\ UNCHANGED <<algo, inst, expired>>

\* saturation degree and degree of v, lines 99-101
saturation(graph, coloring, v) ==
    Cardinality(neighbor_colors(graph, coloring, v))

\* a slip in line 104: the tie-break by degree left out
dsatur_better_saturation_only(sat, degree, best) ==
    sat > best.best_saturation

\* line 104: larger saturation, or equal saturation and larger degree
dsatur_better(sat, degree, best) ==
    \/ sat > best.best_saturation
    \/ sat = best.best_saturation /\ degree > best.best_degree

\* lines 93-107, "for v in uncolored" over the vertices order[1..i] with
\* the locals best_vertex, best_saturation, best_degree
RECURSIVE dsatur_scan(_, _, _, _)
dsatur_scan(graph, coloring, order, i) ==
    IF i = 0
    THEN [best_vertex |-> None, best_saturation |-> -1, best_degree |-> -1]
    ELSE LET best == dsatur_scan(graph, coloring, order, i - 1)
             v == order[i]
             sat == saturation(graph, coloring, v)
             degree == Cardinality(graph[v])
         IN IF dsatur_better(sat, degree, best)
            THEN [best_vertex |-> Some(v), best_saturation |-> sat,
                  best_degree |-> degree]
            ELSE best

\* the orders in which the iteration of a set may give its elements
iteration_orders(S) ==
    {order \in [1..Cardinality(S) -> S] :
        \A i, j \in 1..Cardinality(S) : order[i] = order[j] => i = j}

\* lines 93-107: the best_vertex the scan may end with, the set uncolored
\* being iterated in any order
dsatur_best_vertices(graph, coloring, uncolored) ==
    {dsatur_scan(graph, coloring, order, Len(order)).best_vertex.val :
        order \in iteration_orders(uncolored)}

\* lines 80-89: the empty graph, or the first vertex
dsatur_coloring_first ==
    /\ algo = "dsatur_coloring"
    /\ pc = "first"
    /\ IF DOMAIN inst.graph = {}
       THEN /\ result' = << <<>> >>
            /\ pc' = "done"
            /\ loc' = loc
       ELSE /\ \E first_vertex \in
                   {v \in DOMAIN inst.graph : \A w \in DOMAIN inst.graph :
                       Cardinality(inst.graph[v]) >= Cardinality(inst.graph[w])} :
                   loc' = [coloring |-> set_color(<<>>, first_vertex, 0),
                           uncolored |-> (DOMAIN inst.graph) \ {first_vertex}]
            /\ pc' = "while_uncolored"
            /\ result' = result
    /\ UNCHANGED <<algo, inst, expired>>

\* one iteration of "while uncolored", lines 91-116, or the return
dsatur_coloring_while_uncolored ==
    /\ algo = "dsatur_coloring"
    /\ pc = "while_uncolored"
    /\ IF loc.uncolored = {}
       THEN /\ result' = <<loc.coloring>>
            /\ pc' = "done"
            /\ loc' = loc
       ELSE /\ \E best_vertex \in
                   dsatur_best_vertices(inst.graph, loc.coloring, loc.uncolored) :
                   loc' = [coloring |-> set_color(loc.coloring, best_vertex,
                               smallest_free_color(
                                   neighbor_colors(inst.graph, loc.coloring, best_vertex))),
                           uncolored |-> loc.uncolored \ {best_vertex}]
            /\ pc' = pc
            /\ result' = result
    /\ UNCHANGED <<algo, inst, expired>>

\* one iteration of "for v in vertices", lines 144-150, or the return
greedy_coloring_for_v ==
    /\ algo = "greedy_coloring"
    /\ pc = "for_v"
    /\ LET vertices == greedy_order(inst.graph, inst.strategy)
       IN IF loc.i > Len(vertices)
          THEN /\ result' = <<loc.coloring>>
               /\ pc' = "done"
               /\ loc' = loc
          ELSE /\ loc' = [i |-> loc.i + 1,
                          coloring |-> set_color(loc.coloring, vertices[loc.i],
                              smallest_free_color(
                                  neighbor_colors(inst.graph, loc.coloring, vertices[loc.i])))]
               /\ pc' = pc
               /\ result' = result
    /\ UNCHANGED <<algo, inst, expired>>

InitColoring ==
    /\ algo \in {"backtrack_coloring_optimized", "dsatur_coloring", "greedy_coloring"}
    /\ inst \in IF algo = "greedy_coloring"
                THEN {[graph |-> g, strategy |-> s] :
                          g \in Graphs(MaxV), s \in {"natural", "degree"}}
                ELSE {[graph |-> g] :
                          g \in Graphs(MaxV) \cup
                                (IF algo = "backtrack_coloring_optimized"
                                 THEN {CrownGraph} ELSE {PathGraph})}
    /\ loc = CASE algo = "backtrack_coloring_optimized" ->
                      [coloring |-> <<>>, stack |-> <<>>,
                       arg |-> [idx |-> 0, max_color_used |-> -1],
                       best_coloring |-> None,
                       best_num_colors |-> Cardinality(DOMAIN inst.graph) + 1]
               [] algo = "dsatur_coloring" ->
                      [coloring |-> <<>>, uncolored |-> DOMAIN inst.graph]
               [] OTHER -> [i |-> 1, coloring |-> <<>>]
    /\ pc = CASE algo = "backtrack_coloring_optimized" -> "call"
              [] algo = "dsatur_coloring" -> "first"
              [] OTHER -> "for_v"
    /\ expired = FALSE
    /\ result = <<>>

NextColoring ==
    \/ Elapse
    \/ backtrack_call
    \/ backtrack_for_color
    \/ backtrack_return
    \/ dsatur_coloring_first
    \/ dsatur_coloring_while_uncolored
    \/ greedy_coloring_for_v

SpecColoring == InitColoring /\ [][NextColoring]_vars

(***************************************************************************)
(* Set cover.  sets is a list, indexed from 0 in the source: sets[idx] is  *)
(* written set_at(sets, idx).                                              *)
(***************************************************************************)
set_at(sets, idx) == sets[idx + 1]

\* list(range(m))
range(m) == [i \in 1..m |-> i - 1]

\* lines 34-36: the union of the sets of combo
covered_by(sets, combo) ==
    UNION {set_at(sets, combo[i]) : i \in 1..Len(combo)}

\* universe and family as generate_set_cover_instance builds them: the
\* universe is range(universe_size), every set a subset of it
SetCoversOfSize(u, m) ==
    {[universe |-> 0..(u - 1), sets |-> s] : s \in [1..m -> SUBSET (0..(u - 1))]}

\* the set-cover scenario: two sets suffice, and the greedy choice finds two
ScenarioSetCover ==
    [universe |-> 1..5, sets |-> <<{1, 2, 3}, {2, 4}, {3, 4, 5}>>]

\* an instance on which the greedy choice is not optimal: the first set is
\* taken first, and then each of the other two is still needed
GreedyGapSetCover ==
    [universe |-> 0..3, sets |-> <<{1, 2}, {0, 1}, {2, 3}>>]

\* the for-k header (k = 1..m): loop exit, the timeout check, or entry to
\* the combinations of size k
bruteforce_set_cover_for_k ==
    /\ algo = "bruteforce_set_cover"
    /\ pc = "for_k"
    /\ IF loc.k > Len(inst.sets)
       THEN /\ result' = <<None, [status |-> "INFEASIBLE", num_sets |-> 0]>>
            /\ pc' = "done"
            /\ loc' = loc
       ELSE IF expired
       THEN /\ result' = <<None, [status |-> "TIMEOUT", num_sets |-> 0]>>
            /\ pc' = "done"
            /\ loc' = loc
       ELSE /\ pc' = "for_combo"
            /\ loc' = [loc EXCEPT !.j = 1]
            /\ result' = result
    /\ UNCHANGED <<algo, inst, expired>>

\* a slip in line 38: "covered <= universe" for "covered >= universe"
covers_universe_reversed(covered, universe) == covered \subseteq universe

\* line 38: covered >= universe
covers_universe(covered, universe) == universe \subseteq covered

\* one combination of size k: return it when it covers the universe
bruteforce_set_cover_for_combo ==
    /\ algo = "bruteforce_set_cover"
    /\ pc = "for_combo"
    /\ LET combos == combinations(range(Len(inst.sets)), loc.k)
       IN IF loc.j > Len(combos)
          THEN /\ pc' = "for_k"
               /\ loc' = [loc EXCEPT !.k = loc.k + 1]
               /\ result' = result
          ELSE LET combo == combos[loc.j]
                   covered == covered_by(inst.sets, combo)
               IN IF covers_universe(covered, inst.universe)
                  THEN /\ result' = <<combo, [status |-> "OPTIMAL",
                                              num_sets |-> loc.k,
                                              coverage |-> Cardinality(covered)]>>
                       /\ pc' = "done"
                       /\ loc' = loc
                  ELSE /\ loc' = [loc EXCEPT !.j = loc.j + 1]
                       /\ pc' = pc
                       /\ result' = result
    /\ UNCHANGED <<algo, inst, expired>>

\* a slip in line 72: len(s), the size of the whole set
count_uncovered_whole_set(sets, idx, uncovered) ==
    Cardinality(set_at(sets, idx))

\* line 72: count = len(s & uncovered)
count_uncovered(sets, idx, uncovered) ==
    Cardinality(set_at(sets, idx) \cap uncovered)

\* a slip in line 73: "count > 0" for "count > best_count", which leaves the
\* last set with a positive count as best_idx
best_idx_last_positive(sets, selected, uncovered) ==
    LET open == {idx \in 0..(Len(sets) - 1) :
                    idx \notin Range(selected)
                    /\ count_uncovered(sets, idx, uncovered) > 0}
    IN IF open = {} THEN None
       ELSE Some(CHOOSE idx \in open : \A other \in open : other <= idx)

\* lines 67-75: the first set, among those not selected, with the largest
\* count, when that count is positive; None when no count is positive
best_idx(sets, selected, uncovered) ==
    LET open == {idx \in 0..(Len(sets) - 1) :
                    idx \notin Range(selected)
                    /\ count_uncovered(sets, idx, uncovered) > 0}
        best == {idx \in open : \A other \in open :
                    count_uncovered(sets, idx, uncovered)
                        >= count_uncovered(sets, other, uncovered)}
    IN IF open = {} THEN None
       ELSE Some(CHOOSE idx \in best : \A other \in best : idx <= other)

\* one pass of "while uncovered", lines 62-82, and the returns of lines 84-87
greedy_set_cover_while_uncovered ==
    /\ algo = "greedy_set_cover"
    /\ pc = "while_uncovered"
    /\ LET n_covered == Cardinality(inst.universe) - Cardinality(loc.uncovered)
           found == best_idx(inst.sets, loc.selected, loc.uncovered)
       IN IF loc.uncovered = {}
          THEN /\ result' = <<loc.selected, [status |-> "COMPLETE",
                                             num_sets |-> Len(loc.selected),
                                             coverage |-> Cardinality(inst.universe)]>>
               /\ pc' = "done"
               /\ loc' = loc
          ELSE IF expired
          THEN /\ result' = <<loc.selected, [status |-> "TIMEOUT",
                                             num_sets |-> Len(loc.selected),
                                             coverage |-> n_covered]>>
               /\ pc' = "done"
               /\ loc' = loc
          ELSE IF ~found.some
          THEN /\ result' = <<loc.selected, [status |-> "PARTIAL",
                                             num_sets |-> Len(loc.selected),
                                             coverage |-> n_covered]>>
               /\ pc' = "done"
               /\ loc' = loc
          ELSE /\ loc' = [selected |-> Append(loc.selected, found.val),
                          uncovered |-> loc.uncovered \ set_at(inst.sets, found.val)]
               /\ pc' = pc
               /\ result' = result
    /\ UNCHANGED <<algo, inst, expired>>

InitSetCover ==
    /\ algo \in {"bruteforce_set_cover", "greedy_set_cover"}
    /\ \/ \E u \in 0..MaxU : \E m \in 0..MaxSets : inst \in SetCoversOfSize(u, m)
       \/ inst \in {ScenarioSetCover, GreedyGapSetCover}
    /\ loc = IF algo = "bruteforce_set_cover"
             THEN [k |-> 1, j |-> 1]
             ELSE [selected |-> <<>>, uncovered |-> inst.universe]
    /\ pc = IF algo = "bruteforce_set_cover" THEN "for_k" ELSE "while_uncovered"
    /\ expired = FALSE
    /\ result = <<>>

NextSetCover ==
    \/ Elapse
    \/ bruteforce_set_cover_for_k
    \/ bruteforce_set_cover_for_combo
    \/ greedy_set_cover_while_uncovered

SpecSetCover == InitSetCover /\ [][NextSetCover]_vars

(***************************************************************************)
(* Reference notions of the problems, by naive enumeration.                *)
(***************************************************************************)
Adjacent(graph, u, v) == v \in graph[u] /\ u \in graph[v]

Covers(graph, C) ==
    \A u \in DOMAIN graph : \A v \in graph[u] : u \in C \/ v \in C

MinCoverSize(graph) ==
    CHOOSE s \in 0..Cardinality(DOMAIN graph) :
        /\ \E C \in SUBSET DOMAIN graph : Cardinality(C) = s /\ Covers(graph, C)
        /\ \A C \in SUBSET DOMAIN graph : Covers(graph, C) => Cardinality(C) >= s

IsClique(graph, S) ==
    \A u \in S : \A v \in S : u # v => Adjacent(graph, u, v)

MaxCliqueSize(graph) ==
    CHOOSE s \in 0..Cardinality(DOMAIN graph) :
        /\ \E S \in SUBSET DOMAIN graph : Cardinality(S) = s /\ IsClique(graph, S)
        /\ \A S \in SUBSET DOMAIN graph : IsClique(graph, S) => Cardinality(S) <= s

Returned(a) == algo = a /\ pc = "done"

(***************************************************************************)
(* Claims.                                                                 *)
(***************************************************************************)
\* the value of variable v under the assignment whose number is i
BitOf(i, v) == (i \div (2 ^ (v - 1))) % 2 = 1

\* the assignment whose number is i makes every clause true
NumberSatisfies(clauses, i) ==
    \A c \in 1..Len(clauses) : \E p \in 1..Len(clauses[c]) :
        IF clauses[c][p] > 0 THEN BitOf(i, clauses[c][p])
        ELSE ~BitOf(i, -clauses[c][p])

\* C1: when the timeout never elapses, bruteforce_sat returns 'SAT' with the
\* assignment of the least number i in 0..2^n-1 (bit v-1 of i the value of
\* variable v) that makes every clause true, and (None, 'UNSAT') exactly
\* when no i does; 'SAT' never comes with a clause left false.
C1_BruteforceSatFirstModel ==
    Returned("bruteforce_sat") =>
        LET models == {i \in 0..(2 ^ inst.n_vars - 1) :
                          NumberSatisfies(inst.clauses, i)}
        IN /\ result[2] = "SAT" =>
                  /\ DOMAIN result[1] = 1..inst.n_vars
                  /\ \E i \in models :
                         /\ \A v \in 1..inst.n_vars : result[1][v] = BitOf(i, v)
                         /\ \A j \in models : i <= j
           /\ ~expired =>
                  /\ result[2] \in {"SAT", "UNSAT"}
                  /\ (result[2] = "UNSAT") <=> (models = {})
                  /\ result[2] = "UNSAT" => ~result[1].some

\* a formula of two clauses whose first model is i = 2: assignments 0 and 1
\* were tried and failed
C1_Witness ==
    /\ Returned("bruteforce_sat") /\ ~expired
    /\ inst.n_vars = 2
    /\ Len(inst.clauses) = 2
    /\ result[2] = "SAT"
    /\ ~result[1][1] /\ result[1][2]

\* the scenario formula is found satisfiable
C1_WitnessScenario ==
    /\ Returned("bruteforce_sat") /\ ~expired
    /\ inst = ScenarioFormula
    /\ result[2] = "SAT"

\* UNSAT is reached on a formula over two variables
C1_WitnessUnsat ==
    /\ Returned("bruteforce_sat") /\ ~expired
    /\ inst.n_vars = 2
    /\ result[2] = "UNSAT"

\* C2: when the timeout never elapses, bruteforce_vertex_cover returns a set
\* that has an endpoint of every edge, and no smaller vertex set does.
C2_BruteforceVertexCoverMinimum ==
    (Returned("bruteforce_vertex_cover") /\ ~expired) =>
        /\ result[1] \subseteq DOMAIN inst.graph
        /\ Covers(inst.graph, result[1])
        /\ Cardinality(result[1]) = MinCoverSize(inst.graph)

\* the triangle: a cover of size 2 is returned
C2_Witness ==
    /\ Returned("bruteforce_vertex_cover") /\ ~expired
    /\ inst.graph = generate_graph(3, {<<0, 1>>, <<0, 2>>, <<1, 2>>})
    /\ Cardinality(result[1]) = 2

\* C3: when the timeout never elapses, on a non-empty graph bruteforce_clique
\* returns a set of pairwise adjacent vertices of the size of a largest clique.
C3_BruteforceCliqueMaximum ==
    (Returned("bruteforce_clique") /\ ~expired /\ DOMAIN inst.graph # {}) =>
        /\ result[1] \subseteq DOMAIN inst.graph
        /\ IsClique(inst.graph, result[1])
        /\ Cardinality(result[1]) = MaxCliqueSize(inst.graph)

\* the triangle: {0,1,2} is returned
C3_Witness ==
    /\ Returned("bruteforce_clique") /\ ~expired
    /\ inst.graph = generate_graph(3, {<<0, 1>>, <<0, 2>>, <<1, 2>>})
    /\ result[1] = {0, 1, 2}

\* C6: vertex_cover_maximal_matching returns a set that has an endpoint of
\* every edge and at most twice as many vertices as a minimum vertex cover.
C6_MaximalMatchingTwoApprox ==
    Returned("vertex_cover_maximal_matching") =>
        /\ result[1] \subseteq DOMAIN inst.graph
        /\ Covers(inst.graph, result[1])
        /\ Cardinality(result[1]) <= 2 * MinCoverSize(inst.graph)

\* the bound is met: two matching edges where two vertices suffice
C6_Witness ==
    /\ Returned("vertex_cover_maximal_matching")
    /\ Cardinality(result[1]) = 4
    /\ MinCoverSize(inst.graph) = 2

ProperColoring(graph, coloring) ==
    /\ DOMAIN coloring = DOMAIN graph
    /\ \A u \in DOMAIN graph : coloring[u] \in Nat
    /\ \A u \in DOMAIN graph : \A v \in graph[u] : coloring[u] # coloring[v]

NumColors(coloring) == Cardinality({coloring[u] : u \in DOMAIN coloring})

Colorable(graph, k) ==
    \E c \in [DOMAIN graph -> 1..k] :
        \A u \in DOMAIN graph : \A v \in graph[u] : c[u] # c[v]

ChromaticNumber(graph) ==
    CHOOSE k \in 0..Cardinality(DOMAIN graph) :
        Colorable(graph, k) /\ (k = 0 \/ ~Colorable(graph, k - 1))

\* C4: when the timeout never elapses, backtrack_coloring_optimized returns a
\* coloring of every vertex, adjacent vertices differing, with as few colors
\* as any such coloring has (the chromatic number).
C4_BacktrackColoringOptimal ==
    (Returned("backtrack_coloring_optimized") /\ ~expired) =>
        /\ ProperColoring(inst.graph, result[1])
        /\ NumColors(result[1]) = ChromaticNumber(inst.graph)

\* two colors are returned on a graph on which greedy_coloring in natural
\* order uses three
C4_Witness ==
    /\ Returned("backtrack_coloring_optimized") /\ ~expired
    /\ NumColors(result[1]) = 2
    /\ NumColors(greedy_coloring(inst.graph, "natural")) = 3

\* C8: dsatur_coloring and greedy_coloring (either strategy) return a
\* coloring of every vertex in which no two adjacent vertices share a color.
C8_HeuristicColoringsProper ==
    (Returned("dsatur_coloring") \/ Returned("greedy_coloring")) =>
        ProperColoring(inst.graph, result[1])

\* dsatur_coloring on a graph that needs three colors
C8_Witness ==
    /\ Returned("dsatur_coloring")
    /\ Cardinality(DOMAIN inst.graph) = 4
    /\ NumColors(result[1]) = 3

\* the sets of indices whose sets together contain the universe
CoveringIndexSets(universe, sets) ==
    {S \in SUBSET (0..(Len(sets) - 1)) :
        universe \subseteq UNION {set_at(sets, idx) : idx \in S}}

\* a list of distinct indices of sets
IsIndexList(sets, l) ==
    /\ Range(l) \subseteq 0..(Len(sets) - 1)
    /\ Cardinality(Range(l)) = Len(l)

\* C5: when the timeout never elapses, bruteforce_set_cover returns 'OPTIMAL'
\* with a list of set indices whose union contains the universe and whose
\* length (num_sets) is the least size of a covering combination of size
\* 1..m, and (None, 'INFEASIBLE') exactly when no such combination covers.
C5_BruteforceSetCoverOptimal ==
    (Returned("bruteforce_set_cover") /\ ~expired) =>
        LET covering == CoveringIndexSets(inst.universe, inst.sets) \ {{}}
        IN /\ result[2].status \in {"OPTIMAL", "INFEASIBLE"}
           /\ (result[2].status = "INFEASIBLE") <=> (covering = {})
           /\ result[2].status = "INFEASIBLE" => ~result[1].some
           /\ result[2].status = "OPTIMAL" =>
                  /\ IsIndexList(inst.sets, result[1])
                  /\ Range(result[1]) \in covering
                  /\ \A S \in covering : Len(result[1]) <= Cardinality(S)
                  /\ result[2].num_sets = Len(result[1])

\* the scenario: sets 0 and 2 are returned
C5_Witness ==
    /\ Returned("bruteforce_set_cover") /\ ~expired
    /\ inst = ScenarioSetCover
    /\ result[2].status = "OPTIMAL"
    /\ result[1] = <<0, 2>>

\* INFEASIBLE is reached too, on a family of three sets
C5_WitnessInfeasible ==
    /\ Returned("bruteforce_set_cover") /\ ~expired
    /\ Len(inst.sets) = 3
    /\ result[2].status = "INFEASIBLE"

\* C9: when the timeout never elapses, greedy_set_cover stops only with
\* nothing uncovered or with no gain left among the sets not selected;
\* 'COMPLETE' is reported exactly when the selected sets contain the
\* universe, 'PARTIAL' exactly when an element stays uncovered; and every
\* set selected was not selected before and covered the largest number of
\* the elements uncovered at that moment.
C9_GreedySetCoverSelection ==
    /\ []((Returned("greedy_set_cover") /\ ~expired) =>
            LET uncovered == inst.universe \ covered_by(inst.sets, result[1])
            IN /\ IsIndexList(inst.sets, result[1])
               /\ \/ uncovered = {}
                  \/ \A idx \in 0..(Len(inst.sets) - 1) :
                         idx \notin Range(result[1]) =>
                             set_at(inst.sets, idx) \cap uncovered = {}
               /\ result[2].status \in {"COMPLETE", "PARTIAL"}
               /\ (result[2].status = "COMPLETE") <=> (uncovered = {})
               /\ (result[2].status = "PARTIAL") <=> (uncovered # {}))
    /\ [][(algo = "greedy_set_cover" /\ loc'.selected # loc.selected) =>
            \E idx \in 0..(Len(inst.sets) - 1) :
                /\ loc'.selected = Append(loc.selected, idx)
                /\ idx \notin Range(loc.selected)
                /\ loc'.uncovered = loc.uncovered \ set_at(inst.sets, idx)
                /\ \A other \in 0..(Len(inst.sets) - 1) :
                       other \notin Range(loc.selected) =>
                           Cardinality(set_at(inst.sets, idx) \cap loc.uncovered)
                               >= Cardinality(set_at(inst.sets, other) \cap loc.uncovered)]_vars

\* a run that stopped on zero gain after two selections
C9_Witness ==
    /\ Returned("greedy_set_cover") /\ ~expired
    /\ result[2].status = "PARTIAL"
    /\ Len(result[1]) = 2
    /\ Len(inst.sets) = 3

\* the scenario is covered by two selections
C9_WitnessComplete ==
    /\ Returned("greedy_set_cover") /\ ~expired
    /\ inst = ScenarioSetCover
    /\ result[2].status = "COMPLETE"
    /\ Len(result[1]) = 2

RECURSIVE Factorial(_)
Factorial(n) == IF n = 0 THEN 1 ELSE n * Factorial(n - 1)

RECURSIVE HarmonicTimes(_, _)
\* f * (1 + 1/2 + ... + 1/n), for f a multiple of 1..n
HarmonicTimes(f, n) == IF n = 0 THEN 0 ELSE f \div n + HarmonicTimes(f, n - 1)

MinSetCoverSize(universe, sets) ==
    CHOOSE s \in 0..Len(sets) :
        /\ \E S \in CoveringIndexSets(universe, sets) : Cardinality(S) = s
        /\ \A S \in CoveringIndexSets(universe, sets) : Cardinality(S) >= s

\* C10: when greedy_set_cover reports 'COMPLETE', the number of sets selected
\* is at most H(|universe|) times the size of a minimum cover.
C10_GreedySetCoverHarmonicBound ==
    (Returned("greedy_set_cover") /\ result[2].status = "COMPLETE") =>
        LET n == Cardinality(inst.universe)
        IN /\ result[2].num_sets = Len(result[1])
           /\ Len(result[1]) * Factorial(n)
                  <= HarmonicTimes(Factorial(n), n)
                         * MinSetCoverSize(inst.universe, inst.sets)

\* a complete run that selected more sets than a minimum cover has
C10_Witness ==
    /\ Returned("greedy_set_cover")
    /\ result[2].status = "COMPLETE"
    /\ Len(result[1]) = 3
    /\ MinSetCoverSize(inst.universe, inst.sets) = 2

(***************************************************************************)
(* MAX-3SAT heuristics.                                                    *)
(***************************************************************************)
\* the satisfied-clause count of the current assignment of the local search
CurrentCount == count_satisfied(inst.clauses, loc.assignment)

\* C11: in flipping_literals_maxsat the number of clauses the current
\* assignment satisfies never decreases from one step to the next: a trial
\* of a candidate leaves the assignment as it was (the flip is undone), a
\* committed flip strictly increases the count, and the count returned is
\* the number of clauses the returned assignment satisfies.
C11_FlippingNeverDecreases ==
    [][(algo = "flipping_literals_maxsat" /\ pc # "start") =>
          /\ count_satisfied(inst.clauses, loc'.assignment) >= CurrentCount
          /\ (pc = "for_var" /\ loc.todo # {}) => loc'.assignment = loc.assignment
          /\ (loc'.assignment # loc.assignment) =>
                /\ pc = "for_var" /\ pc' = "for_step"
                /\ count_satisfied(inst.clauses, loc'.assignment) > CurrentCount
          /\ (pc' = "done") =>
                /\ result'[1] = loc.assignment
                /\ result'[2] = count_satisfied(inst.clauses, result'[1])]_vars

\* two flips were committed, each after its trials, and the call returned
C11_Witness ==
    /\ Returned("flipping_literals_maxsat")
    /\ loc.step = 2
    /\ result[2] = 2
    /\ Len(inst.clauses) = 2

\* C12: flipping_literals_maxsat stops with steps of its budget left only
\* when every clause is satisfied or when no flip of one candidate (a
\* variable of a currently unsatisfied clause) raises the satisfied-clause
\* count; on the scenario formula, with a budget of one step or more, it
\* returns 4 of 4 from every start assignment.
C12_FlippingStopsAtLocalOptimum ==
    Returned("flipping_literals_maxsat") =>
        /\ (loc.step < inst.max_steps) =>
              \/ unsatisfied(inst.clauses, result[1]) = {}
              \/ \A var \in flip_candidates(inst.clauses, result[1]) :
                    count_satisfied(inst.clauses, flip(result[1], var))
                        <= count_satisfied(inst.clauses, result[1])
        /\ (inst.clauses = ScenarioFormula.clauses /\ inst.max_steps >= 1) =>
              /\ result[2] = 4
              /\ satisfies_all(inst.clauses, result[1])

\* a stop at a local optimum that leaves a clause unsatisfied
C12_Witness ==
    /\ Returned("flipping_literals_maxsat")
    /\ loc.step < inst.max_steps
    /\ unsatisfied(inst.clauses, result[1]) # {}
    /\ flip_candidates(inst.clauses, result[1]) # {}

\* the scenario formula from a start assignment that violates a clause
C12_WitnessScenario ==
    /\ Returned("flipping_literals_maxsat")
    /\ inst.clauses = ScenarioFormula.clauses
    /\ loc.step = 1
    /\ result[2] = 4

\* the satisfied-clause counts of the drawn assignments, their maximum, and
\* the first position of the maximum
DrawnCount(i) == count_satisfied(inst.clauses, loc.drawn[i])

MaxDrawnCount ==
    CHOOSE c \in {DrawnCount(i) : i \in 1..Len(loc.drawn)} :
        \A i \in 1..Len(loc.drawn) : DrawnCount(i) <= c

EarliestBest ==
    CHOOSE i \in 1..Len(loc.drawn) :
        /\ DrawnCount(i) = MaxDrawnCount
        /\ \A j \in 1..(i - 1) : DrawnCount(j) < MaxDrawnCount

\* C13: for every formula, trial budget T >= 1 and T drawn assignments,
\* randomization_maxsat returns the earliest drawn assignment whose
\* satisfied-clause count is the maximum over the T trials, with that
\* maximum as the count.
C13_RandomizationEarliestBest ==
    (Returned("randomization_maxsat") /\ inst.max_tries >= 1) =>
        /\ Len(loc.drawn) = inst.max_tries
        /\ result[2] = MaxDrawnCount
        /\ result[1].some
        /\ result[1].val = loc.drawn[EarliestBest]

\* the same, for the runs in which some trial satisfies a clause
C13_EarliestBestWhenPositive ==
    (Returned("randomization_maxsat") /\ inst.max_tries >= 1
        /\ MaxDrawnCount > 0) =>
        /\ Len(loc.drawn) = inst.max_tries
        /\ result[2] = MaxDrawnCount
        /\ result[1].some
        /\ result[1].val = loc.drawn[EarliestBest]

\* two trials with the maximum count, the second a different assignment
C13_WitnessTie ==
    /\ Returned("randomization_maxsat")
    /\ Len(loc.drawn) = 2
    /\ MaxDrawnCount > 0
    /\ DrawnCount(1) = DrawnCount(2)
    /\ loc.drawn[1] # loc.drawn[2]

\* every trial satisfies no clause: None is returned
C13_WitnessNoneReturned ==
    /\ Returned("randomization_maxsat")
    /\ Len(loc.drawn) = 2
    /\ Len(inst.clauses) > 0
    /\ ~result[1].some

\* C14: every assignment a MAX-3SAT heuristic returns is total over the
\* variables 1..n_vars, also with zero clauses and when every trial
\* satisfies no clause: then both return a total assignment with count 0.
C14_ReturnedAssignmentTotal ==
    /\ Returned("randomization_maxsat") =>
          /\ result[1].some
          /\ DOMAIN result[1].val = 1..inst.n_vars
          /\ result[2] = count_satisfied(inst.clauses, result[1].val)
    /\ Returned("flipping_literals_maxsat") =>
          /\ DOMAIN result[1] = 1..inst.n_vars
          /\ result[2] = count_satisfied(inst.clauses, result[1])

\* the local search alone does return a total assignment
C14_FlippingTotal ==
    Returned("flipping_literals_maxsat") =>
        /\ DOMAIN result[1] = 1..inst.n_vars
        /\ result[2] = count_satisfied(inst.clauses, result[1])

\* zero clauses, one variable, one trial: the trial's assignment is dropped
C14_WitnessZeroClauses ==
    /\ Returned("randomization_maxsat")
    /\ Len(inst.clauses) = 0
    /\ inst.n_vars = 1
    /\ Len(loc.drawn) = 1
    /\ ~result[1].some
    /\ result[2] = 0

(***************************************************************************)
(* The solvers with a timeout, side by side: one call of any solver.       *)
(***************************************************************************)
InitSolvers ==
    \/ InitSat
    \/ InitVC
    \/ InitClique
    \/ InitColoring
    \/ InitSetCover

NextSolvers ==
    \/ NextSat
    \/ NextVC
    \/ NextClique
    \/ NextColoring
    \/ NextSetCover

SpecSolvers == InitSolvers /\ [][NextSolvers]_vars

ExactSolvers ==
    {"bruteforce_sat", "bruteforce_vertex_cover", "bruteforce_clique",
     "backtrack_coloring_optimized", "bruteforce_set_cover"}

\* the solver is at a place where it compares the clock with the timeout
\* before going on: the head of an enumeration loop that has a pass left
AtCheckPoint ==
    \/ algo = "bruteforce_sat" /\ pc = "for_i" /\ loc.i < 2 ^ inst.n_vars
    \/ algo = "bruteforce_vertex_cover" /\ pc = "for_k"
          /\ loc.k <= Cardinality(DOMAIN inst.graph)
    \/ algo = "bruteforce_clique" /\ pc = "for_k" /\ loc.k >= 1
    \/ algo = "bruteforce_set_cover" /\ pc = "for_k" /\ loc.k <= Len(inst.sets)
    \/ algo = "greedy_set_cover" /\ pc = "while_uncovered" /\ loc.uncovered # {}

TimeoutFound == AtCheckPoint /\ expired

\* the returned value r carries the status TIMEOUT
ReportsTimeout(r) ==
    /\ Len(r) = 2
    /\ IF algo \in {"bruteforce_set_cover", "greedy_set_cover"}
       THEN r[2].status = "TIMEOUT"
       ELSE r[2] = "TIMEOUT"

\* C15: whenever one of the five exact solvers stops because its timeout
\* elapsed, the returned value carries an explicit status that tells the
\* run from a completed one (and a completed run never carries it).
C15_TimeoutHasExplicitStatus ==
    [][(algo \in ExactSolvers /\ pc # "done" /\ pc' = "done") =>
          /\ TimeoutFound => ReportsTimeout(result')
          /\ (algo = "backtrack_coloring_optimized" /\ ~loc.best_coloring.some)
                => ReportsTimeout(result')
          /\ ReportsTimeout(result') => expired]_vars

\* the two solvers that return a status do report every timeout with it
C15_StatusSolversReportTimeout ==
    [][(algo \in {"bruteforce_sat", "bruteforce_set_cover"}
           /\ pc # "done" /\ pc' = "done") =>
          /\ TimeoutFound <=> ReportsTimeout(result')]_vars

\* a timed-out coloring run whose returned value is an optimal coloring
C15_WitnessColoringLooksOptimal ==
    /\ Returned("backtrack_coloring_optimized")
    /\ ~loc.best_coloring.some
    /\ Len(result) = 1
    /\ DOMAIN inst.graph # {}
    /\ ProperColoring(inst.graph, result[1])
    /\ NumColors(result[1]) = ChromaticNumber(inst.graph)

\* a timed-out vertex cover run: the whole vertex set and no status
C15_WitnessVertexCover ==
    /\ Returned("bruteforce_vertex_cover")
    /\ expired
    /\ Len(result) = 1
    /\ result[1] = DOMAIN inst.graph
    /\ DOMAIN inst.graph # {}

\* C16: when the timeout is found elapsed at a check point, the call ends
\* there with the solver's sentinel: bruteforce_sat (None, 'TIMEOUT'),
\* bruteforce_set_cover (None, status 'TIMEOUT'), bruteforce_vertex_cover
\* the whole vertex set, bruteforce_clique the empty set, greedy_set_cover
\* the indices selected so far with status 'TIMEOUT'.
C16_TimeoutSentinels ==
    [][TimeoutFound =>
          /\ pc' = "done"
          /\ CASE algo = "bruteforce_sat" ->
                     result' = <<None, "TIMEOUT">>
               [] algo = "bruteforce_set_cover" ->
                     /\ Len(result') = 2
                     /\ result'[1] = None
                     /\ result'[2].status = "TIMEOUT"
               [] algo = "bruteforce_vertex_cover" ->
                     result' = <<DOMAIN inst.graph>>
               [] algo = "bruteforce_clique" ->
                     result' = <<{}>>
               [] algo = "greedy_set_cover" ->
                     /\ Len(result') = 2
                     /\ result'[1] = loc.selected
                     /\ result'[2].status = "TIMEOUT"]_vars

\* greedy_set_cover timed out after it had selected a set
C16_Witness ==
    /\ Returned("greedy_set_cover")
    /\ result[2].status = "TIMEOUT"
    /\ Len(result[1]) >= 1

\* bruteforce_vertex_cover timed out on a graph with an isolated vertex
C16_WitnessVertexCover ==
    /\ Returned("bruteforce_vertex_cover")
    /\ expired
    /\ result[1] = DOMAIN inst.graph
    /\ \E v \in DOMAIN inst.graph : inst.graph[v] = {}
    /\ edges_of(inst.graph) # {}

(***************************************************************************)
(* The exact coloring under a timeout.                                     *)
(***************************************************************************)
\* the greedy coloring of the vertices in ascending order, each vertex
\* taking the least color none of its earlier neighbours has
RECURSIVE NaturalGreedy(_, _, _)
NaturalGreedy(graph, todo, coloring) ==
    IF todo = {} THEN coloring
    ELSE LET v == CHOOSE x \in todo : \A y \in todo : x <= y
             used == {coloring[u] : u \in graph[v] \cap DOMAIN coloring}
             color == CHOOSE c \in 0..Cardinality(used) : c \notin used /\ \A d \in 0..(c - 1) : d \in used
         IN NaturalGreedy(graph, todo \ {v},
                [u \in DOMAIN coloring \cup {v} |->
                    IF u = v THEN color ELSE coloring[u]])

\* C17: backtrack_coloring_optimized always returns a proper coloring of
\* every vertex, with or without a timeout: when no complete coloring was
\* recorded it returns greedy_coloring(graph) in natural order, otherwise
\* the recorded coloring, and a recorded coloring is complete, proper and
\* of fewer colors than every one recorded before it.
C17_BacktrackTimeoutFallback ==
    /\ [](Returned("backtrack_coloring_optimized") =>
             /\ ProperColoring(inst.graph, result[1])
             /\ IF loc.best_coloring.some
                THEN result[1] = loc.best_coloring.val
                ELSE /\ expired
                     /\ result[1] = NaturalGreedy(inst.graph, DOMAIN inst.graph, <<>>))
    /\ [][(algo = "backtrack_coloring_optimized"
             /\ loc'.best_coloring # loc.best_coloring) =>
             /\ loc'.best_coloring.some
             /\ ProperColoring(inst.graph, loc'.best_coloring.val)
             /\ NumColors(loc'.best_coloring.val) = loc'.best_num_colors
             /\ loc'.best_num_colors < loc.best_num_colors]_vars

\* the timeout elapsed before any complete coloring was recorded, on a
\* graph where the natural and the degree order color differently
C17_Witness ==
    /\ Returned("backtrack_coloring_optimized")
    /\ ~loc.best_coloring.some
    /\ result[1] # greedy_coloring(inst.graph, "degree")

\* the timeout elapsed after a coloring was recorded and before a better one
\* was found
C17_WitnessBestSoFar ==
    /\ Returned("backtrack_coloring_optimized")
    /\ loc.best_coloring.some
    /\ expired
    /\ NumColors(result[1]) > ChromaticNumber(inst.graph)

(***************************************************************************)
(* The benchmark harness, run_benchmarks.py: one instance of one problem.  *)
(* The exact solver runs first, then each heuristic, every call a run of   *)
(* the solver's own actions above; between two calls the harness records   *)
(* an entry of instance_results['algorithms'] in inst.algorithms.  The     *)
(* elapsed times of the entries are left out.  inst.timed_out is not a     *)
(* value of the program: it notes whether the exact run surely ended on    *)
(* its timeout.  max_tries and max_steps stand for the 1000 and 10000 the  *)
(* harness passes.                                                         *)
(***************************************************************************)
\* a float that is a quotient of two integers, and 100.0
ratio_percent(a, b) == [num |-> a * 100, den |-> b]

hundred == [num |-> 100, den |-> 1]

\* lines 76, 96 and 224: (value / optimal * 100) if optimal > 0 else 100.0
accuracy_maximization(value, optimal) ==
    IF optimal > 0 THEN ratio_percent(value, optimal) ELSE hundred

\* a slip in lines 152, 280, 299 and 356: the quotient of lines 76 and 224
accuracy_minimization_swapped(optimal, value) ==
    IF optimal > 0 THEN ratio_percent(value, optimal) ELSE hundred

\* lines 152, 170, 280, 299 and 356:
\* (optimal / value * 100) if value > 0 else 100.0
accuracy_minimization(optimal, value) ==
    IF value > 0 THEN ratio_percent(optimal, value) ELSE hundred

\* lines 261, 275 and 294: max(coloring.values()) + 1 if coloring else 0
num_colors_of(coloring) ==
    IF DOMAIN coloring = {} THEN 0
    ELSE LET colors == {coloring[v] : v \in DOMAIN coloring}
         IN 1 + CHOOSE c \in colors : \A d \in colors : d <= c

\* instance_results['algorithms'][name] = entry
with_entry(name, entry) ==
    [inst EXCEPT !.algorithms = (name :> entry) @@ inst.algorithms]

\* the exact run that has just returned surely ended on its timeout
ExactTimedOut ==
    CASE algo = "bruteforce_sat" -> result[2] = "TIMEOUT"
      [] algo = "bruteforce_set_cover" -> result[2].status = "TIMEOUT"
      [] algo = "bruteforce_vertex_cover" ->
            expired /\ DOMAIN inst.graph # {} /\ result[1] = DOMAIN inst.graph
      [] algo = "bruteforce_clique" ->
            expired /\ DOMAIN inst.graph # {} /\ result[1] = {}
      [] algo = "backtrack_coloring_optimized" -> ~loc.best_coloring.some

\* the next call of the harness: solver a with its locals l at position p
call(a, l, p) ==
    /\ algo' = a
    /\ loc' = l
    /\ pc' = p
    /\ expired' = FALSE
    /\ result' = <<>>

\* results.append(instance_results)
finish ==
    /\ algo' = inst.benchmark
    /\ pc' = "finished"
    /\ result' = inst'.algorithms
    /\ UNCHANGED <<loc, expired>>

\* lines 47-63
benchmark_3sat_bruteforce ==
    /\ inst.benchmark = "benchmark_3sat"
    /\ Returned("bruteforce_sat")
    /\ LET status == result[2]
           num_satisfied == IF status = "SAT" THEN Some(Len(inst.clauses))
                            ELSE IF status = "TIMEOUT" THEN None
                            ELSE Some(0)
       IN inst' = [with_entry("Bruteforce",
                       [status |-> status,
                        num_satisfied |-> num_satisfied,
                        total_clauses |-> Len(inst.clauses),
                        accuracy |-> IF status # "TIMEOUT" THEN Some(hundred) ELSE None])
                   EXCEPT !.timed_out = ExactTimedOut]
    /\ call("randomization_maxsat",
            [drawn |-> <<>>, best_assignment |-> None, best_count |-> 0], "for_try")

\* lines 72-84 and 93-104: the entry of a MAX-3SAT heuristic
maxsat_entry(num_satisfied) ==
    [status |-> "COMPLETE",
     num_satisfied |-> Some(num_satisfied),
     total_clauses |-> Len(inst.clauses),
     accuracy |->
         IF inst.algorithms["Bruteforce"].num_satisfied.some
         THEN Some(accuracy_maximization(num_satisfied,
                       inst.algorithms["Bruteforce"].num_satisfied.val))
         ELSE None]

\* lines 69-84
benchmark_3sat_randomization ==
    /\ inst.benchmark = "benchmark_3sat"
    /\ Returned("randomization_maxsat")
    /\ inst' = with_entry("Randomization", maxsat_entry(result[2]))
    /\ call("flipping_literals_maxsat", <<>>, "start")

\* lines 90-107
benchmark_3sat_flipping ==
    /\ inst.benchmark = "benchmark_3sat"
    /\ Returned("flipping_literals_maxsat")
    /\ inst' = with_entry("Flipping Literals", maxsat_entry(result[2]))
    /\ finish

\* lines 133-140
benchmark_vertex_cover_bruteforce ==
    /\ inst.benchmark = "benchmark_vertex_cover"
    /\ Returned("bruteforce_vertex_cover")
    /\ inst' = [with_entry("Bruteforce",
                    [cover_size |-> Some(Cardinality(result[1])),
                     accuracy |-> Some(hundred)])
                EXCEPT !.timed_out = ExactTimedOut]
    /\ call("vertex_cover_maximal_matching",
            [cover |-> {}, covered_vertices |-> {},
             remaining |-> edges_of(inst.graph)], "for_edge")

\* lines 149-158 and 167-176: the entry of a vertex cover heuristic
cover_entry(cover) ==
    [cover_size |-> Some(Cardinality(cover)),
     accuracy |->
         IF inst.algorithms["Bruteforce"].cover_size.some
         THEN Some(accuracy_minimization(
                       inst.algorithms["Bruteforce"].cover_size.val,
                       Cardinality(cover)))
         ELSE None]

\* lines 146-158
benchmark_vertex_cover_matching ==
    /\ inst.benchmark = "benchmark_vertex_cover"
    /\ Returned("vertex_cover_maximal_matching")
    /\ inst' = with_entry("Maximal Matching", cover_entry(result[1]))
    /\ call("vertex_cover_lp_rounding", [success |-> None, x |-> None], "solve")

\* lines 164-179
benchmark_vertex_cover_lp_rounding ==
    /\ inst.benchmark = "benchmark_vertex_cover"
    /\ Returned("vertex_cover_lp_rounding")
    /\ inst' = with_entry("LP Rounding", cover_entry(result[1]))
    /\ finish

\* lines 205-212
benchmark_max_clique_bruteforce ==
    /\ inst.benchmark = "benchmark_max_clique"
    /\ Returned("bruteforce_clique")
    /\ inst' = [with_entry("Bruteforce",
                    [clique_size |-> Some(Cardinality(result[1])),
                     accuracy |-> Some(hundred)])
                EXCEPT !.timed_out = ExactTimedOut]
    /\ call("greedy_clique",
            [i |-> 1, current_clique |-> {}, candidates |-> {}], "for_v")

\* lines 218-233
benchmark_max_clique_greedy ==
    /\ inst.benchmark = "benchmark_max_clique"
    /\ Returned("greedy_clique")
    /\ inst' = with_entry("Greedy",
                   [clique_size |-> Some(Cardinality(result[1])),
                    accuracy |->
                        IF inst.algorithms["Bruteforce"].clique_size.some
                        THEN Some(accuracy_maximization(
                                      Cardinality(result[1]),
                                      inst.algorithms["Bruteforce"].clique_size.val))
                        ELSE None])
    /\ finish

\* lines 259-267
benchmark_graph_coloring_backtracking ==
    /\ inst.benchmark = "benchmark_graph_coloring"
    /\ Returned("backtrack_coloring_optimized")
    /\ inst' = [with_entry("Backtracking",
                    [num_colors |-> Some(num_colors_of(result[1])),
                     accuracy |-> Some(hundred)])
                EXCEPT !.timed_out = ExactTimedOut]
    /\ call("dsatur_coloring",
            [coloring |-> <<>>, uncolored |-> DOMAIN inst.graph], "first")

\* lines 275-286 and 294-305: the entry of a coloring heuristic
coloring_entry(coloring) ==
    [num_colors |-> Some(num_colors_of(coloring)),
     accuracy |->
         IF inst.algorithms["Backtracking"].num_colors.some
         THEN Some(accuracy_minimization(
                       inst.algorithms["Backtracking"].num_colors.val,
                       num_colors_of(coloring)))
         ELSE None]

\* lines 273-286
benchmark_graph_coloring_dsatur ==
    /\ inst.benchmark = "benchmark_graph_coloring"
    /\ Returned("dsatur_coloring")
    /\ inst' = with_entry("DSatur", coloring_entry(result[1]))
    /\ call("greedy_coloring", [i |-> 1, coloring |-> <<>>], "for_v")

\* lines 292-308
benchmark_graph_coloring_greedy ==
    /\ inst.benchmark = "benchmark_graph_coloring"
    /\ Returned("greedy_coloring")
    /\ inst' = with_entry("Greedy", coloring_entry(result[1]))
    /\ finish

\* lines 336-344: "if cover" is false for None and for the empty list; the
\* cover is a list exactly when the status is OPTIMAL
benchmark_set_cover_bruteforce ==
    /\ inst.benchmark = "benchmark_set_cover"
    /\ Returned("bruteforce_set_cover")
    /\ LET cover == result[1]
           truthy == result[2].status = "OPTIMAL" /\ Len(cover) > 0
       IN inst' = [with_entry("Bruteforce",
                       [cover_size |-> IF truthy THEN Some(Len(cover)) ELSE None,
                        status |-> result[2].status,
                        accuracy |-> IF truthy THEN Some(hundred) ELSE None])
                   EXCEPT !.timed_out = ExactTimedOut]
    /\ call("greedy_set_cover",
            [selected |-> <<>>, uncovered |-> inst.universe], "while_uncovered")

\* lines 350-366
benchmark_set_cover_greedy ==
    /\ inst.benchmark = "benchmark_set_cover"
    /\ Returned("greedy_set_cover")
    /\ inst' = with_entry("Greedy",
                   [cover_size |-> Some(Len(result[1])),
                    status |-> result[2].status,
                    accuracy |->
                        IF inst.algorithms["Bruteforce"].cover_size.some
                        THEN Some(accuracy_minimization(
                                      inst.algorithms["Bruteforce"].cover_size.val,
                                      Len(result[1])))
                        ELSE None])
    /\ finish

InitHarness ==
    /\ \/ /\ \E n \in 0..MaxVars : \E s \in 0..MaxTrialLits :
                \E f \in FormulasOfSize(n, s) :
                   inst = [benchmark |-> "benchmark_3sat",
                           clauses |-> f.clauses, n_vars |-> n,
                           max_tries |-> MaxTries, max_steps |-> MaxSteps,
                           algorithms |-> <<>>, timed_out |-> FALSE]
          /\ algo = "bruteforce_sat"
          /\ loc = [i |-> 0]
          /\ pc = "for_i"
       \/ /\ \E g \in Graphs(MaxV) :
                inst = [benchmark |-> "benchmark_vertex_cover", graph |-> g,
                        algorithms |-> <<>>, timed_out |-> FALSE]
          /\ algo = "bruteforce_vertex_cover"
          /\ loc = [k |-> 0, j |-> 1]
          /\ pc = "for_k"
       \/ /\ \E g \in Graphs(MaxV) :
                inst = [benchmark |-> "benchmark_max_clique", graph |-> g,
                        algorithms |-> <<>>, timed_out |-> FALSE]
          /\ algo = "bruteforce_clique"
          /\ loc = [k |-> Cardinality(DOMAIN inst.graph), j |-> 1]
          /\ pc = "for_k"
       \/ /\ \E g \in Graphs(MaxV) \cup {CrownGraph} :
                inst = [benchmark |-> "benchmark_graph_coloring", graph |-> g,
                        strategy |-> "natural",
                        algorithms |-> <<>>, timed_out |-> FALSE]
          /\ algo = "backtrack_coloring_optimized"
          /\ loc = [coloring |-> <<>>, stack |-> <<>>,
                    arg |-> [idx |-> 0, max_color_used |-> -1],
                    best_coloring |-> None,
                    best_num_colors |-> Cardinality(DOMAIN inst.graph) + 1]
          /\ pc = "call"
       \/ /\ \/ \E u \in 0..(MaxU - 1) : \E m \in 0..MaxSets :
                   \E sc \in SetCoversOfSize(u, m) :
                      inst = [benchmark |-> "benchmark_set_cover",
                              universe |-> sc.universe, sets |-> sc.sets,
                              algorithms |-> <<>>, timed_out |-> FALSE]
             \/ \E sc \in {ScenarioSetCover, GreedyGapSetCover} :
                   inst = [benchmark |-> "benchmark_set_cover",
                           universe |-> sc.universe, sets |-> sc.sets,
                           algorithms |-> <<>>, timed_out |-> FALSE]
          /\ algo = "bruteforce_set_cover"
          /\ loc = [k |-> 1, j |-> 1]
          /\ pc = "for_k"
    /\ expired = FALSE
    /\ result = <<>>

NextHarness ==
    \/ NextSat
    \/ NextMaxSat
    \/ NextVC
    \/ NextClique
    \/ NextColoring
    \/ NextSetCover
    \/ benchmark_3sat_bruteforce
    \/ benchmark_3sat_randomization
    \/ benchmark_3sat_flipping
    \/ benchmark_vertex_cover_bruteforce
    \/ benchmark_vertex_cover_matching
    \/ benchmark_vertex_cover_lp_rounding
    \/ benchmark_max_clique_bruteforce
    \/ benchmark_max_clique_greedy
    \/ benchmark_graph_coloring_backtracking
    \/ benchmark_graph_coloring_dsatur
    \/ benchmark_graph_coloring_greedy
    \/ benchmark_set_cover_bruteforce
    \/ benchmark_set_cover_greedy

SpecHarness == InitHarness /\ [][NextHarness]_vars

(***************************************************************************)
(* The accuracy entries of the harness.                                    *)
(***************************************************************************)
Finished(b) == pc = "finished" /\ inst.benchmark = b

\* the entry of the exact solver, and the entries of the heuristics
ExactName ==
    IF inst.benchmark = "benchmark_graph_coloring" THEN "Backtracking" ELSE "Bruteforce"

HeuristicNames == DOMAIN inst.algorithms \ {ExactName}

\* the exact solver found the instance to have no solution
ExactInfeasible ==
    \/ inst.benchmark = "benchmark_3sat"
          /\ inst.algorithms["Bruteforce"].status = "UNSAT"
    \/ inst.benchmark = "benchmark_set_cover"
          /\ inst.algorithms["Bruteforce"].status = "INFEASIBLE"

\* C18: in the harness the accuracy of a heuristic is recorded as None
\* whenever the exact run of the instance timed out or the instance is
\* infeasible, in all five problems: no default and no score derived from
\* a sentinel is recorded then.
C18_AccuracyUnknownWithoutOptimum ==
    (pc = "finished" /\ (inst.timed_out \/ ExactInfeasible)) =>
        \A name \in HeuristicNames : ~inst.algorithms[name].accuracy.some

\* the cases the harness does handle: a timeout of bruteforce_sat, and a
\* timeout or an infeasible instance of bruteforce_set_cover
C18_UnknownWhereStatusIsRead ==
    /\ (Finished("benchmark_3sat") /\ inst.timed_out) =>
          \A name \in HeuristicNames : ~inst.algorithms[name].accuracy.some
    /\ (Finished("benchmark_set_cover") /\ (inst.timed_out \/ ExactInfeasible)) =>
          \A name \in HeuristicNames : ~inst.algorithms[name].accuracy.some

\* the exact clique run timed out, its sentinel gave the size 0, and the
\* greedy clique of two vertices was scored with the default 100
C18_WitnessCliqueDefault ==
    /\ Finished("benchmark_max_clique")
    /\ inst.timed_out
    /\ inst.algorithms["Bruteforce"].clique_size.val = 0
    /\ inst.algorithms["Greedy"].clique_size.val = 2
    /\ inst.algorithms["Greedy"].accuracy = Some(hundred)

\* the exact vertex cover run timed out and the heuristic was scored against
\* the whole vertex set
C18_WitnessVertexCoverSentinel ==
    /\ Finished("benchmark_vertex_cover")
    /\ inst.timed_out
    /\ inst.algorithms["Maximal Matching"].accuracy.some
    /\ inst.algorithms["Bruteforce"].cover_size.val = Cardinality(DOMAIN inst.graph)

\* the value an entry records: satisfied clauses, cover size, clique size,
\* colors, sets
ValueOf(entry) ==
    CASE inst.benchmark = "benchmark_3sat" -> entry.num_satisfied
      [] inst.benchmark = "benchmark_max_clique" -> entry.clique_size
      [] inst.benchmark = "benchmark_graph_coloring" -> entry.num_colors
      [] OTHER -> entry.cover_size

\* the quotient q is p percent of ... : q = a / b * 100
IsPercentOf(q, a, b) == q.num * b = a * 100 * q.den

\* C19: the harness scores the maximization problems (MAX-3SAT, clique) as
\* heuristic_value / optimal_value x 100, and 100 when optimal_value = 0,
\* and the minimization problems (vertex cover, coloring, set cover) as
\* optimal_value / heuristic_value x 100, and 100 when heuristic_value = 0.
C19_AccuracyOrientation ==
    pc = "finished" =>
        \A name \in HeuristicNames :
            LET entry == inst.algorithms[name]
                heuristic_value == ValueOf(entry).val
                optimal_value == ValueOf(inst.algorithms[ExactName]).val
            IN entry.accuracy.some =>
                  IF inst.benchmark \in {"benchmark_3sat", "benchmark_max_clique"}
                  THEN IF optimal_value = 0
                       THEN IsPercentOf(entry.accuracy.val, 1, 1)
                       ELSE IsPercentOf(entry.accuracy.val, heuristic_value, optimal_value)
                  ELSE IF heuristic_value = 0
                       THEN IsPercentOf(entry.accuracy.val, 1, 1)
                       ELSE IsPercentOf(entry.accuracy.val, optimal_value, heuristic_value)

\* minimization: a matching cover of two vertices against an optimum of one
C19_Witness ==
    /\ Finished("benchmark_vertex_cover")
    /\ ~expired
    /\ inst.algorithms["Bruteforce"].cover_size.val = 1
    /\ inst.algorithms["Maximal Matching"].cover_size.val = 2
    /\ IsPercentOf(inst.algorithms["Maximal Matching"].accuracy.val, 1, 2)

\* maximization: one clause of two satisfied by the best of the trials
C19_WitnessMaximization ==
    /\ Finished("benchmark_3sat")
    /\ inst.algorithms["Bruteforce"].num_satisfied.some
    /\ inst.algorithms["Bruteforce"].num_satisfied.val = 2
    /\ inst.algorithms["Randomization"].num_satisfied.val = 1
    /\ IsPercentOf(inst.algorithms["Randomization"].accuracy.val, 1, 2)

(***************************************************************************)
(* Degenerate inputs.                                                      *)
(***************************************************************************)
SetCoverSolvers == {"bruteforce_set_cover", "greedy_set_cover"}

GraphSetSolvers ==
    {"bruteforce_vertex_cover", "vertex_cover_maximal_matching",
     "vertex_cover_lp_rounding", "bruteforce_clique", "greedy_clique"}

ColoringSolvers ==
    {"backtrack_coloring_optimized", "dsatur_coloring", "greedy_coloring"}

\* on the empty graph the solver returned the empty set or empty coloring
EmptyGraphResult ==
    /\ (algo \in GraphSetSolvers /\ pc = "done" /\ DOMAIN inst.graph = {}) =>
          result = <<{}>>
    /\ (algo \in ColoringSolvers /\ pc = "done" /\ DOMAIN inst.graph = {}) =>
          DOMAIN result[1] = {}

\* C20: on an empty universe both set-cover solvers return the empty
\* selection with a status saying that the universe is covered, for every
\* family of sets, the empty one too; on an empty graph every vertex-cover,
\* clique and coloring solver returns the empty set or the empty coloring.
C20_DegenerateInputs ==
    /\ (algo \in SetCoverSolvers /\ pc = "done" /\ ~expired
           /\ inst.universe = {}) =>
          /\ result[2].status \in {"OPTIMAL", "COMPLETE"}
          /\ Len(result[1]) = 0
    /\ EmptyGraphResult

\* what does hold: greedy_set_cover on an empty universe, and the graph
\* solvers on the empty graph
C20_GreedyAndGraphSolvers ==
    /\ (Returned("greedy_set_cover") /\ inst.universe = {}) =>
          /\ result[2].status = "COMPLETE"
          /\ result[1] = <<>>
    /\ EmptyGraphResult

\* bruteforce_set_cover on an empty universe and two sets: one set selected
C20_WitnessOneSetSelected ==
    /\ Returned("bruteforce_set_cover")
    /\ inst.universe = {}
    /\ Len(inst.sets) = 2
    /\ result[2].status = "OPTIMAL"
    /\ result[1] = <<0>>

\* bruteforce_set_cover on an empty universe and the empty family
C20_WitnessEmptyFamily ==
    /\ Returned("bruteforce_set_cover")
    /\ ~expired
    /\ inst.universe = {}
    /\ Len(inst.sets) = 0
    /\ result[2].status = "INFEASIBLE"

\* the exact coloring of the empty graph
C20_WitnessEmptyGraph ==
    /\ Returned("backtrack_coloring_optimized")
    /\ DOMAIN inst.graph = {}
    /\ loc.best_coloring.some
    /\ DOMAIN result[1] = {}

(***************************************************************************)
(* LP rounding.                                                            *)
(***************************************************************************)
RECURSIVE SumOf(_, _)
SumOf(x, i) == IF i = 0 THEN 0 ELSE x[i] + SumOf(x, i - 1)

\* twice the optimum of the relaxation: the relaxation has an optimal
\* solution whose values are 0, 1/2 and 1
TwiceLPOptimum(graph) ==
    LET n == Cardinality(DOMAIN graph)
        vertices == sorted(DOMAIN graph)
        half == {h \in [1..n -> 0..2] :
                    \A u \in 1..n : \A v \in 1..n :
                        vertices[v] \in graph[vertices[u]] => h[u] + h[v] >= 2}
    IN CHOOSE s \in 0..(2 * n) :
          /\ \E h \in half : SumOf(h, n) = s
          /\ \A h \in half : SumOf(h, n) >= s

\* the x that linprog returned is an optimal solution of the relaxation
LPOptimal ==
    2 * SumOf(loc.x.val, Len(loc.x.val))
        = LPDenominator * TwiceLPOptimum(inst.graph)

\* C21: given any x with 0 <= x_v <= 1 and x_u + x_v >= 1 on every edge that
\* the LP solver reports as a success, vertex_cover_lp_rounding returns
\* exactly the vertices with x_v >= 0.5, which form a vertex cover of at
\* most twice the minimum size when x is optimal; when the solver reports
\* failure it returns the whole vertex set.
C21_LPRoundingCover ==
    Returned("vertex_cover_lp_rounding") =>
        /\ (loc.success.some /\ loc.success.val) =>
              /\ result[1] = {v \in DOMAIN inst.graph :
                                 \E i \in 1..Len(loc.x.val) :
                                    /\ sorted(DOMAIN inst.graph)[i] = v
                                    /\ 2 * loc.x.val[i] >= LPDenominator}
              /\ Covers(inst.graph, result[1])
              /\ LPOptimal =>
                    Cardinality(result[1]) <= 2 * MinCoverSize(inst.graph)
        /\ (loc.success.some /\ ~loc.success.val) =>
              result[1] = DOMAIN inst.graph

\* an optimal x, all halves on a triangle with a pendant vertex: the cover
\* has twice the minimum size
C21_Witness ==
    /\ Returned("vertex_cover_lp_rounding")
    /\ loc.success.some /\ loc.success.val
    /\ LPOptimal
    /\ Cardinality(result[1]) = 2 * MinCoverSize(inst.graph)
    /\ \E i \in 1..Len(loc.x.val) : 2 * loc.x.val[i] = LPDenominator

\* the solver reported failure
C21_WitnessFailure ==
    /\ Returned("vertex_cover_lp_rounding")
    /\ loc.success.some /\ ~loc.success.val
    /\ result[1] = DOMAIN inst.graph

\* ---------------------------------------------------------------------------
\* The generator behind "import random" (sat_algos.py line 6) is one object
\* of the process: every call of either MAX-SAT heuristic seeds it and draws
\* from it.  It is modelled as a deterministic generator with an explicit
\* state, a linear congruential step standing for the Mersenne Twister:
\* seeding sets the state from the seed alone, a draw advances the state
\* and returns a value computed from it.  SpecRandom runs two solver calls
\* of one process on one formula, their steps interleaved in any order
\* (one call wholly before the other included); inst.calls holds the
\* arguments, loc.random the generator, loc.calls each call's own locals.
\* ---------------------------------------------------------------------------
RandomModulus == 8

Callers == {1, 2}

Seeds == {None, Some(0), Some(1)}

\* random.seed(seed)
random_seed(seed) == seed % RandomModulus

\* the generator's step at each draw
random_next(state) == (5 * state + 3) % RandomModulus

\* random.choice([True, False]) from the generator in this state
random_choice(state) == random_next(state) >= RandomModulus \div 2

\* lines 59-60 and 96-97: "if seed is not None: random.seed(seed)", then
\* the locals of lines 62-63
shared_seed(t) ==
    LET c == inst.calls[t]
        f == loc.calls[t]
    IN /\ pc = "running" /\ f.pc = "seed"
       /\ loc' = [loc EXCEPT !.random = IF c.seed.some THEN random_seed(c.seed.val)
                                         ELSE loc.random,
                             !.calls[t].pc = IF c.algo = "randomization_maxsat"
                                             THEN "for_try" ELSE "draw"]
       /\ UNCHANGED <<algo, inst, pc, expired, result>>

\* lines 69-76 for a drawn assignment: count, keep if strictly better
shared_keep(f, assignment) ==
    LET count == count_satisfied(inst.clauses, assignment)
    IN [f EXCEPT !.pc = "for_try", !.assignment = <<>>, !.tries = f.tries + 1,
                 !.best_assignment = IF count > f.best_count THEN Some(assignment)
                                     ELSE f.best_assignment,
                 !.best_count = IF count > f.best_count THEN count ELSE f.best_count]

\* line 65, "for _ in range(max_tries)", and the return of line 78
shared_for_try(t) ==
    LET c == inst.calls[t]
        f == loc.calls[t]
    IN /\ pc = "running" /\ f.pc = "for_try"
       /\ loc' = [loc EXCEPT !.calls[t] =
                     IF f.tries = c.budget
                     THEN [f EXCEPT !.pc = "done",
                                    !.result = <<f.best_assignment, f.best_count>>]
                     ELSE IF inst.n_vars = 0 THEN shared_keep(f, <<>>)
                     ELSE [f EXCEPT !.pc = "draw"]]
       /\ UNCHANGED <<algo, inst, pc, expired, result>>

\* one random.choice of the comprehension of line 67 or of line 100; the
\* draw that completes the assignment is followed by the call's own
\* computation on it
shared_draw(t) ==
    LET c == inst.calls[t]
        f == loc.calls[t]
        assignment == Append(f.assignment, random_choice(loc.random))
    IN /\ pc = "running" /\ f.pc = "draw"
       /\ loc' = [loc EXCEPT !.random = IF inst.n_vars = 0 THEN loc.random
                                         ELSE random_next(loc.random),
                             !.calls[t] =
                     IF inst.n_vars = 0
                     THEN [f EXCEPT !.pc = "for_step", !.start = Some(<<>>)]
                     ELSE IF Len(assignment) < inst.n_vars
                     THEN [f EXCEPT !.assignment = assignment]
                     ELSE IF c.algo = "randomization_maxsat"
                     THEN shared_keep(f, assignment)
                     ELSE [f EXCEPT !.pc = "for_step", !.assignment = assignment,
                                    !.start = Some(assignment)]]
       /\ UNCHANGED <<algo, inst, pc, expired, result>>

\* lines 107-147, one pass of "for _ in range(max_steps)", and the return
\* of lines 149-150; the candidate kept by the strict comparison of line 139
\* is the first of the largest improvement in the set's iteration order
shared_for_step(t) ==
    LET c == inst.calls[t]
        f == loc.calls[t]
        current_count == count_satisfied(inst.clauses, f.assignment)
        gain(var) == improvement(count_satisfied(inst.clauses, flip(f.assignment, var)),
                                 current_count)
        todo == flip_candidates(inst.clauses, f.assignment)
        best == {var \in todo : gain(var) > 0 /\ \A w \in todo : gain(w) <= gain(var)}
    IN /\ pc = "running" /\ f.pc = "for_step"
       /\ IF f.tries = c.budget \/ best = {}
          THEN loc' = [loc EXCEPT !.calls[t] =
                          [f EXCEPT !.pc = "done",
                                    !.result = <<f.assignment, current_count>>]]
          ELSE \E var \in best :
                  loc' = [loc EXCEPT !.calls[t] =
                             [f EXCEPT !.assignment = flip(f.assignment, var),
                                       !.tries = f.tries + 1]]
       /\ UNCHANGED <<algo, inst, pc, expired, result>>

\* both calls have returned
shared_finish ==
    /\ pc = "running"
    /\ \A t \in Callers : loc.calls[t].pc = "done"
    /\ pc' = "done"
    /\ result' = <<loc.calls[1].result, loc.calls[2].result>>
    /\ UNCHANGED <<algo, inst, loc, expired>>

SharedFrame ==
    [pc |-> "seed", assignment |-> <<>>, tries |-> 0, best_assignment |-> None,
     best_count |-> 0, start |-> None, result |-> <<>>]

SharedCalls ==
    [algo : {"randomization_maxsat", "flipping_literals_maxsat"},
     seed : Seeds, budget : 0..MaxTries]

InitRandom ==
    /\ algo = "random"
    /\ \E n \in 0..MaxVars : \E s \in 0..MaxTrialLits : \E f \in FormulasOfSize(n, s) :
          \E c1, c2 \in SharedCalls :
             inst = [clauses |-> f.clauses, n_vars |-> n, calls |-> <<c1, c2>>]
    /\ \E state \in 0..(RandomModulus - 1) :
          loc = [random |-> state, calls |-> <<SharedFrame, SharedFrame>>]
    /\ pc = "running"
    /\ expired = FALSE
    /\ result = <<>>

NextRandom ==
    \/ \E t \in Callers : shared_seed(t)
    \/ \E t \in Callers : shared_for_try(t)
    \/ \E t \in Callers : shared_draw(t)
    \/ \E t \in Callers : shared_for_step(t)
    \/ shared_finish

SpecRandom == InitRandom /\ [][NextRandom]_vars

\* what the generator gives from a state: the next n values, and its state
\* after k draws
RECURSIVE draws(_, _)
draws(state, n) ==
    IF n = 0 THEN <<>> ELSE <<random_choice(state)>> \o draws(random_next(state), n - 1)

RECURSIVE advance(_, _)
advance(state, k) == IF k = 0 THEN state ELSE advance(random_next(state), k - 1)

\* the result of randomization_maxsat when nothing else draws from its
\* generator
RECURSIVE randomization_alone(_, _, _, _, _)
randomization_alone(clauses, n_vars, state, tries_left, best) ==
    IF tries_left = 0 THEN best
    ELSE LET assignment == draws(state, n_vars)
             count == count_satisfied(clauses, assignment)
         IN randomization_alone(clauses, n_vars, advance(state, n_vars), tries_left - 1,
                                IF count > best[2] THEN <<Some(assignment), count>>
                                ELSE best)

SeededAlone(t) ==
    LET c == inst.calls[t]
        f == loc.calls[t]
        state == random_seed(c.seed.val)
    IN IF c.algo = "randomization_maxsat"
       THEN f.result = randomization_alone(inst.clauses, inst.n_vars, state, c.budget,
                                           <<None, 0>>)
       ELSE f.start = Some(draws(state, inst.n_vars))

\* C22: a call with a given formula and seed computes what it would compute
\* alone, whatever the other call of the process does before or between its
\* steps: the randomized solver returns the result of its own seeded
\* stream, the local search starts from the assignment of its own seeded
\* stream.
C22_NoSharedState ==
    \A t \in Callers :
        (algo = "random" /\ loc.calls[t].pc = "done" /\ inst.calls[t].seed.some)
            => SeededAlone(t)

\* two seeded calls that each draw from the generator have both returned
C22_Witness ==
    /\ algo = "random" /\ pc = "done"
    /\ inst.n_vars > 0
    /\ \A t \in Callers : inst.calls[t].seed.some /\ inst.calls[t].budget > 0

\* ---------------------------------------------------------------------------
\* C23: where the enumeration solvers look at the clock
\* ---------------------------------------------------------------------------
EnumerationSolvers ==
    {"bruteforce_sat", "bruteforce_vertex_cover", "bruteforce_clique",
     "bruteforce_set_cover"}

\* the solver's next step takes a new candidate of its enumeration (an
\* assignment, a vertex subset, a combination of sets) unless a look at the
\* clock stops it first
CandidateAhead ==
    \/ algo = "bruteforce_sat" /\ pc = "for_i" /\ loc.i < 2 ^ inst.n_vars
    \/ algo \in {"bruteforce_vertex_cover", "bruteforce_clique"} /\ pc = "for_subset"
          /\ loc.j <= Len(combinations(keys(inst.graph), loc.k))
    \/ algo = "bruteforce_set_cover" /\ pc = "for_combo"
          /\ loc.j <= Len(combinations(range(Len(inst.sets)), loc.k))

\* C23: every exact enumeration solver compares the clock with the timeout
\* before each new candidate, so that after the deadline at most one further
\* candidate is evaluated: a step taken after the deadline from a place where
\* a candidate is ahead never leaves the solver with yet another candidate
\* ahead and no look at the clock in between.
C23_TimeoutCheckedPerCandidate ==
    [][(algo \in EnumerationSolvers /\ expired /\ CandidateAhead)
          => (~CandidateAhead' \/ AtCheckPoint')]_vars

\* the part that the satisfiability solver meets: after the deadline it
\* takes no further assignment
C23_SatChecksEachAssignment ==
    [][(algo = "bruteforce_sat" /\ expired /\ CandidateAhead)
          => (pc' = "done" /\ result' = <<None, "TIMEOUT">>)]_vars

\* the satisfiability solver stopped by the clock in the middle of its
\* enumeration
C23_Witness ==
    /\ Returned("bruteforce_sat")
    /\ result[2] = "TIMEOUT"
    /\ loc.i > 0

\* ---------------------------------------------------------------------------
\* C24: which of several equally good variables the local search flips
\* ---------------------------------------------------------------------------
\* the gain of flipping one variable of the assignment, lines 131-133
gain_of(clauses, assignment, var) ==
    improvement(count_satisfied(clauses, flip(assignment, var)),
                count_satisfied(clauses, assignment))

\* the places (clause, literal) of the unsatisfied clauses, lines 121-123
literal_places(clauses, assignment) ==
    UNION {{<<c, p>> : p \in 1..Len(clauses[c])} :
              c \in unsatisfied(clauses, assignment)}

\* the places whose variable has the largest gain
best_places(clauses, assignment) ==
    LET places == literal_places(clauses, assignment)
        g(q) == gain_of(clauses, assignment, abs(clauses[q[1]][q[2]]))
    IN {q \in places : \A r \in places : g(r) <= g(q)}

\* the variable of largest gain met first on the walk over the unsatisfied
\* clauses in formula order and over the literals of each clause in order
FirstMetBest(clauses, assignment) ==
    LET best == best_places(clauses, assignment)
        first == CHOOSE q \in best :
                    \A r \in best : q[1] < r[1] \/ (q[1] = r[1] /\ q[2] <= r[2])
    IN abs(clauses[first[1]][first[2]])

\* the pass over the candidates of one step is over and a flip follows
FlipChosen ==
    /\ algo = "flipping_literals_maxsat"
    /\ pc = "for_var"
    /\ loc.todo = {}
    /\ loc.best_improvement > 0
    /\ loc.best_var.some

\* C24: in each step of flipping_literals_maxsat the variable chosen for
\* the flip is, among the candidates of largest positive gain, the one met
\* first when the unsatisfied clauses are walked in formula order and the
\* literals of each clause in order.
C24_TieFirstInClauseOrder ==
    FlipChosen => loc.best_var.val = FirstMetBest(inst.clauses, loc.assignment)

\* what the strict comparison of line 139 gives whatever the order of the
\* pass: the variable chosen has the largest gain of all candidates
C24_ChosenHasLargestGain ==
    FlipChosen =>
        \A var \in flip_candidates(inst.clauses, loc.assignment) :
            gain_of(inst.clauses, loc.assignment, var)
                <= gain_of(inst.clauses, loc.assignment, loc.best_var.val)

\* a flip is chosen where two different variables have the largest gain
C24_Witness ==
    /\ FlipChosen
    /\ \E var \in flip_candidates(inst.clauses, loc.assignment) :
          /\ var # loc.best_var.val
          /\ gain_of(inst.clauses, loc.assignment, var) = loc.best_improvement

\* ---------------------------------------------------------------------------
\* C25: the order and the colors of dsatur_coloring
\* ---------------------------------------------------------------------------
\* the vertices colored by the step
colored_by_step == (DOMAIN loc'.coloring) \ (IF pc = "first" THEN {} ELSE DOMAIN loc.coloring)

\* the coloring before the step
coloring_before == IF pc = "first" THEN <<>> ELSE loc.coloring

\* the color v received is the smallest index no colored neighbor had
SmallestUnusedByNeighbors(v) ==
    LET used == {coloring_before[u] : u \in inst.graph[v] \cap DOMAIN coloring_before}
    IN /\ loc'.coloring[v] \notin used
       /\ \A d \in 0..(loc'.coloring[v] - 1) : d \in used

DsaturColorsFirst ==
    (pc = "first" /\ DOMAIN inst.graph # {}) =>
        /\ Cardinality(colored_by_step) = 1
        /\ \A v \in colored_by_step :
              /\ \A w \in DOMAIN inst.graph :
                    Cardinality(inst.graph[w]) <= Cardinality(inst.graph[v])
              /\ loc'.coloring[v] = 0

DsaturColorsNext ==
    (pc = "while_uncolored" /\ loc.uncolored # {}) =>
        /\ Cardinality(colored_by_step) = 1
        /\ \A v \in colored_by_step :
              /\ v \in loc.uncolored
              /\ \A w \in loc.uncolored :
                    /\ saturation(inst.graph, loc.coloring, w)
                          <= saturation(inst.graph, loc.coloring, v)
                    /\ saturation(inst.graph, loc.coloring, w)
                          = saturation(inst.graph, loc.coloring, v)
                       => Cardinality(inst.graph[w]) <= Cardinality(inst.graph[v])
              /\ SmallestUnusedByNeighbors(v)
              /\ \A u \in DOMAIN loc.coloring : loc'.coloring[u] = loc.coloring[u]

\* C25: dsatur_coloring colors a vertex of maximum degree first, with
\* color 0; every later step colors one uncolored vertex of highest
\* saturation degree and, among those, of highest degree, and gives it the
\* smallest color index that none of its already colored neighbors has.
C25_DsaturOrderAndColor ==
    [][algo = "dsatur_coloring" => (DsaturColorsFirst /\ DsaturColorsNext)]_vars

\* a step of dsatur_coloring is ahead in which saturation decides against
\* degree: an uncolored vertex of lower saturation has the larger degree
C25_Witness ==
    /\ algo = "dsatur_coloring"
    /\ pc = "while_uncolored"
    /\ \E v, w \in loc.uncolored :
          /\ saturation(inst.graph, loc.coloring, v)
                > saturation(inst.graph, loc.coloring, w)
          /\ Cardinality(inst.graph[v]) < Cardinality(inst.graph[w])

\* a step is ahead in which the degree decides between two uncolored
\* vertices of highest saturation
C25_WitnessDegreeDecides ==
    /\ algo = "dsatur_coloring"
    /\ pc = "while_uncolored"
    /\ \E v, w \in loc.uncolored :
          /\ \A u \in loc.uncolored : saturation(inst.graph, loc.coloring, u)
                                        <= saturation(inst.graph, loc.coloring, v)
          /\ saturation(inst.graph, loc.coloring, v)
                = saturation(inst.graph, loc.coloring, w)
          /\ Cardinality(inst.graph[v]) > Cardinality(inst.graph[w])

\* ---------------------------------------------------------------------------
\* C26: the partial coloring at the entries and returns of backtrack
\* ---------------------------------------------------------------------------
\* the colors the callers on the stack have given to their vertices: each
\* caller is in the body of its loop, line 56, with coloring[v] = color
coloring_of_callers ==
    [u \in {loc.stack[i].v : i \in 1..Len(loc.stack)} |->
        loc.stack[CHOOSE i \in 1..Len(loc.stack) : loc.stack[i].v = u].color]

\* no edge between two colored vertices of one color
ProperPartialColoring(graph, coloring) ==
    \A u \in DOMAIN coloring : \A v \in graph[u] \cap DOMAIN coloring :
        coloring[u] # coloring[v]

BacktrackEntry ==
    LET vertices == sorted_by_degree(inst.graph, DOMAIN inst.graph)
    IN /\ DOMAIN loc.coloring = {vertices[i] : i \in 1..loc.arg.idx}
       /\ ProperPartialColoring(inst.graph, loc.coloring)
       /\ {loc.coloring[u] : u \in DOMAIN loc.coloring} = 0..loc.arg.max_color_used
       /\ loc.coloring = coloring_of_callers

\* C26: at every entry to backtrack(idx, max_color_used) the partial
\* coloring covers exactly the first idx vertices of the degree order, is
\* proper and uses exactly the colors 0..max_color_used; every recorded
\* coloring has best_num_colors distinct colors; and when a call returns,
\* the coloring is again the one its callers had built when it was entered.
C26_BacktrackInvariant ==
    algo = "backtrack_coloring_optimized" =>
        /\ pc = "call" => BacktrackEntry
        /\ (pc \in {"call", "for_color", "return"} /\ loc.best_coloring.some) =>
              NumColors(loc.best_coloring.val) = loc.best_num_colors
        /\ pc = "return" => loc.coloring = coloring_of_callers

\* a call entered below the root has returned after its loop tried a color,
\* with a coloring on record
C26_Witness ==
    /\ algo = "backtrack_coloring_optimized"
    /\ pc = "return"
    /\ Len(loc.stack) >= 2
    /\ loc.best_coloring.some
    /\ loc.coloring = coloring_of_callers
    /\ Cardinality({loc.coloring[u] : u \in DOMAIN loc.coloring}) >= 2

\* ---------------------------------------------------------------------------
\* C27: the range of the recorded accuracies
\* ---------------------------------------------------------------------------
\* the quotient q lies between 0 and 100
IsPercentage(q) == q.den > 0 /\ q.num >= 0 /\ q.num <= 100 * q.den

\* C27: every accuracy the harness records for a heuristic is None or a
\* number between 0 and 100, whatever the instance and whatever the outcome
\* of the exact solver, timeout included.
C27_AccuracyIsPercentage ==
    pc = "finished" =>
        \A name \in HeuristicNames :
            inst.algorithms[name].accuracy.some =>
                IsPercentage(inst.algorithms[name].accuracy.val)

\* a heuristic scored below 100 against an exact run that completed
C27_Witness ==
    /\ pc = "finished"
    /\ ~inst.timed_out
    /\ \E name \in HeuristicNames :
          /\ inst.algorithms[name].accuracy.some
          /\ inst.algorithms[name].accuracy.val.num
                < 100 * inst.algorithms[name].accuracy.val.den

\* ---------------------------------------------------------------------------
\* C28: the stop of the local search and the variables it did not try
\* ---------------------------------------------------------------------------
\* flipping_literals_maxsat has left its loop by the break of line 147: it
\* returned with steps left and a clause unsatisfied
StoppedWithoutGain ==
    /\ Returned("flipping_literals_maxsat")
    /\ loc.step < inst.max_steps
    /\ unsatisfied(inst.clauses, result[1]) # {}

\* C28: when flipping_literals_maxsat stops because no candidate flip has
\* positive gain, no flip of any single variable 1..n_vars raises the
\* satisfied-clause count of the returned assignment, the variables that
\* occur in no unsatisfied clause included.
C28_LocalOptimumForEveryVariable ==
    StoppedWithoutGain =>
        \A var \in 1..inst.n_vars :
            count_satisfied(inst.clauses, flip(result[1], var)) <= result[2]

\* such a stop where a variable of a satisfied clause is in no unsatisfied
\* clause, so that the search never tried it
C28_Witness ==
    /\ StoppedWithoutGain
    /\ \E var \in 1..inst.n_vars :
          /\ var \notin flip_candidates(inst.clauses, result[1])
          /\ \E c \in 1..Len(inst.clauses) : \E p \in 1..Len(inst.clauses[c]) :
                abs(inst.clauses[c][p]) = var

\* ---------------------------------------------------------------------------
\* C29: the timeout sentinels of the subset solvers without a timeout
\* ---------------------------------------------------------------------------
\* the step returns from bruteforce_clique or bruteforce_vertex_cover on a
\* graph with a vertex, and not by the timeout branch
ReturnsWithoutTimeout ==
    /\ algo \in {"bruteforce_clique", "bruteforce_vertex_cover"}
    /\ DOMAIN inst.graph # {}
    /\ pc # "done"
    /\ pc' = "done"
    /\ ~TimeoutFound

\* C29: on a non-empty graph (symmetric, without self-loops) a run of
\* bruteforce_clique that does not time out returns a non-empty set, and a
\* run of bruteforce_vertex_cover that does not time out returns a set
\* strictly smaller than the whole vertex set: the timeout sentinels come
\* from a timeout only.
C29_SentinelOnlyAfterTimeout ==
    [][ReturnsWithoutTimeout =>
          /\ algo = "bruteforce_clique" => result'[1] # {}
          /\ algo = "bruteforce_vertex_cover" =>
                /\ result'[1] \subseteq DOMAIN inst.graph
                /\ Cardinality(result'[1]) < Cardinality(DOMAIN inst.graph)]_vars

\* bruteforce_vertex_cover has gone as far as the subsets one smaller than
\* the vertex set and returned one of them, the deadline having passed
\* unnoticed after its last look at the clock
C29_Witness ==
    /\ Returned("bruteforce_vertex_cover")
    /\ expired
    /\ Cardinality(DOMAIN inst.graph) >= 3
    /\ Cardinality(result[1]) = Cardinality(DOMAIN inst.graph) - 1

\* bruteforce_clique has gone down to the single vertices of a graph
\* without edges
C29_WitnessClique ==
    /\ Returned("bruteforce_clique")
    /\ Cardinality(DOMAIN inst.graph) >= 2
    /\ Cardinality(result[1]) = 1

\* ---------------------------------------------------------------------------
\* C30: termination of greedy_clique.  The function takes any adjacency
\* dict; SpecGreedyClique calls it on the symmetric graphs and on every
\* dict without self-loops, symmetric or not, whose neighbors are keys.
\* The fair specification lets the call go on while it has a step to take.
\* ---------------------------------------------------------------------------
DirectedGraphs(max_vertices) ==
    UNION {{g \in [0..(n - 1) -> SUBSET (0..(n - 1))] : \A v \in 0..(n - 1) : v \notin g[v]} :
              n \in 0..max_vertices}

InitGreedyClique ==
    /\ algo = "greedy_clique"
    /\ \E g \in DirectedGraphs(MaxDirectedV) \cup Graphs(MaxV) : inst = [graph |-> g]
    /\ loc = [i |-> 1, current_clique |-> {}, candidates |-> {}]
    /\ pc = "for_v"
    /\ expired = FALSE
    /\ result = <<>>

NextGreedyClique ==
    \/ greedy_clique_for_v
    \/ greedy_clique_while_candidates

SpecGreedyClique == InitGreedyClique /\ [][NextGreedyClique]_vars

SpecGreedyCliqueFair == SpecGreedyClique /\ WF_vars(NextGreedyClique)

\* an iteration of "while candidates" leaves a strictly smaller pool, and
\* stays at the same vertex of the outer loop
InnerLoopShrinks ==
    (pc = "while_candidates" /\ loc.candidates # {}) =>
        /\ loc'.candidates \subseteq loc.candidates
        /\ loc'.candidates # loc.candidates
        /\ loc'.i = loc.i
        /\ pc' = "while_candidates"

\* the outer loop goes to the next vertex of the order whenever it comes
\* back to its header, and stops after the last one
OuterLoopAdvances ==
    /\ (pc = "for_v" /\ pc' = "while_candidates") => loc'.i = loc.i
    /\ pc' = "for_v" => loc'.i = loc.i + 1
    /\ pc' = "done" => loc.i = Cardinality(DOMAIN inst.graph) + 1

\* C30: greedy_clique terminates on every finite graph without self-loops:
\* every iteration of the inner loop strictly shrinks the candidate pool,
\* the outer loop visits each vertex of the order once, and the call
\* returns.
C30_GreedyCliqueTerminates ==
    /\ [][InnerLoopShrinks /\ OuterLoopAdvances]_vars
    /\ <>(pc = "done")

\* the inner loop is about to drop a candidate that is not adjacent to the
\* whole clique (the graph is not symmetric)
C30_Witness ==
    /\ algo = "greedy_clique"
    /\ pc = "while_candidates"
    /\ \E best \in best_candidates(inst.graph, loc.candidates) :
          ~connected_to_all(inst.graph, best, loc.current_clique)

\* the call has returned a clique of three vertices after the outer loop
\* has been through all vertices
C30_WitnessReturned ==
    /\ Returned("greedy_clique")
    /\ loc.i = Cardinality(DOMAIN inst.graph) + 1
    /\ Cardinality(result[1]) >= 3

====
